---- MODULE Spec2Model ----
(***************************************************************************)
(* Claudiator server: the auth / rate-limit layer (server/src/auth.rs),    *)
(* the event ingestion handler with its notification pipeline              *)
(* (server/src/handlers/events.rs) and the notification handlers           *)
(* (server/src/handlers/notifications.rs), as state machines.              *)
(*                                                                         *)
(* Time is one clock `now` (seconds) read by Instant::now() and Utc::now();*)
(* it advances only by the Tick action.  Every mutex-protected section and *)
(* every single SQL statement is one atomic step; a request is a sequence  *)
(* of such steps run by one of the concurrent request slots.               *)
(***************************************************************************)
EXTENDS Integers, Sequences, FiniteSets, TLC

\* ---------------------------------------------------------------- constants

MAX_FAILURES == 10
FAILURE_WINDOW == 300
DEFAULT_KEY_RATE_LIMIT == 1000
KEY_RATE_WINDOW == 60
NOTIF_COOLDOWN_WINDOW == 30
retention_events_days == 7
retention_sessions_days == 7
retention_devices_days == 30

\* get_or_refresh_token: the seconds a cached provider token is reused
TOKEN_TTL == 3000

\* list_notifications_handler: query.limit.unwrap_or(50).min(200)
DEFAULT_LIST_LIMIT == 50
MAX_LIST_LIMIT == 200

\* ------------------------------------------------------------------- bounds

\* number of Tick steps in one behaviour
MaxTicks == 2
\* under SpecQuota a key-bearing request starts only while the key's counter is below this
MaxKeyCount == 3
\* the same under SpecAuth and SpecLockout, whose claims are not about quotas
MaxKeyCountAuth == 1
\* the same under SpecKeys, where one key has a quota of 1
MaxKeyCountKeys == 2
\* under SpecAuth a request starts only while its origin has fewer recorded failures
MaxFailuresAuth == 2

\* transactions events_handler runs in one behaviour of SpecIngest
MaxEvents == 2
\* events taken up by events_handler in a behaviour of SpecSessions
MaxSessionEvents == 3

\* the runs of the hook client's send command
MaxHookRuns == 3

\* the most rows the notifications table of SpecList holds
MaxRows == 201
\* SpecList starts with every table of this many rows or fewer
SmallRows == 8

\* the seconds from one instant of the clock to the next, repeated in this order:
\* under SpecQuota the instants are 0, 59, 60, just inside and just outside
\* KEY_RATE_WINDOW of an entry made at 0; under SpecLockout 0, 299, 300, the same
\* for FAILURE_WINDOW
QuotaPattern == <<59, 1>>
LockoutPattern == <<299, 1>>
\* under SpecIngest 0, 29, 30: just inside and just outside NOTIF_COOLDOWN_WINDOW
\* of a notification made at 0
CooldownPattern == <<29, 1>>

\* concurrent request slots of the auth layer
Slots == {"s1", "s2"}
\* concurrent runs of events_handler
HSlots == {"h1", "h2"}

\* the wall clock, in seconds since the epoch, when the server starts
BootTime == 1000000

\* ---------------------------------------------------------- request inputs

master_key == "master"

\* a header may name any address, also the server's own loopback address
IP1 == "127.0.0.1"
\* IpAddr::from([0u8, 0, 0, 0])
FallbackIp == "0.0.0.0"

\* the strings that parse as an IpAddr
ValidIps == {IP1, FallbackIp}

\* X-Forwarded-For: a comma separated list, here the list of its parts
XffVals == {<<>>, <<"junk">>, <<IP1, "junk">>, <<FallbackIp>>}
\* X-Real-IP: absent (<<>>) or one value
XriVals == {<<>>, <<IP1>>, <<FallbackIp>>}

Tokens == {master_key, "tok_r", "tok_w", "tok_rw", "bogus"}

\* Authorization: absent, a non-Bearer scheme, or "Bearer <token>"
AuthVals == {<<>>, <<"Basic", master_key>>} \cup {<<"Bearer", t>> : t \in Tokens}

Headers == [xff : XffVals, xri : XriVals, auth : AuthVals]

\* the origins of the requests of SpecAuth
HeadersAuth == [xff : {<<>>}, xri : {<<>>}, auth : AuthVals]
HeadersAdmin == [xff : {<<>>, <<IP1, "junk">>}, xri : {<<>>}, auth : AuthVals]

\* the credentials of the requests of SpecLockout: none, the master key, a key
HeadersLockout ==
  [xff : XffVals, xri : XriVals, auth : {<<>>, <<"Bearer", master_key>>, <<"Bearer", "tok_w">>}]

\* the requests of SpecQuota: one origin, a key with a quota of 2 and a key with
\* a quota of 1
HeadersQuota ==
  [xff : {<<>>}, xri : {<<>>}, auth : {<<"Bearer", "tok_r">>, <<"Bearer", "tok_rw">>}]

\* the requests of SpecKeys: one origin; the master key, a key with both scopes
\* and a quota of 1, a key with scope write and no quota of its own
HeadersKeys ==
  [xff : {<<>>}, xri : {<<>>},
   auth : {<<"Bearer", master_key>>, <<"Bearer", "tok_rw">>, <<"Bearer", "tok_w">>}]

\* ConnectInfo<SocketAddr>: absent, a loopback peer, a remote peer
Peers == {"absent", "loopback", "remote"}

Scopes == {"Read", "Write"}

\* the api_keys table: id, secret, scopes column, rate_limit column
\* (Option<i64>: <<>> is NULL)
KeyRows ==
  { [id |-> "kr",  key |-> "tok_r",  scopes |-> <<"read">>,           rate_limit |-> <<2>>],
    [id |-> "kw",  key |-> "tok_w",  scopes |-> <<"write", "admin">>, rate_limit |-> <<>>],
    [id |-> "krw", key |-> "tok_rw", scopes |-> <<"read", " write">>, rate_limit |-> <<1>>] }

KeyIds == {r.id : r \in KeyRows}

\* an EventPayload: the fields the server reads, tool_input for the fields of
\* EventData it only carries, and extra for the flattened map of the keys
\* EventData does not name; Option fields are <<>> or <<v>>
Payload(sid, hook, ntype, prompt) ==
  [device_id |-> "d1", device_name |-> "Mac", platform |-> "macos", session_id |-> sid,
   hook_event_name |-> hook, notification_type |-> ntype, message |-> <<>>,
   tool_name |-> IF hook = "PermissionRequest" THEN <<"Bash">> ELSE <<>>,
   prompt |-> prompt, cwd |-> <<>>, timestamp_ok |-> TRUE,
   tool_input |-> <<>>, extra |-> <<>>]

\* the payloads of SpecIngest: for session S1 an event of each notification
\* category and both kinds of permission event, a prompt that gives the session
\* its title, a Stop of a second session, and four payloads that fail validation
EventInputs ==
  { Payload("S1", "Stop", <<>>, <<>>),
    Payload("S1", "Notification", <<"idle_prompt">>, <<>>),
    Payload("S1", "Notification", <<"permission_prompt">>, <<>>),
    Payload("S1", "PermissionRequest", <<>>, <<>>),
    Payload("S1", "UserPromptSubmit", <<>>, << <<1, 1>> >>),
    Payload("S2", "Stop", <<>>, <<>>),
    Payload("", "Stop", <<>>, <<>>),
    Payload("S1", "", <<>>, <<>>),
    [Payload("S1", "Stop", <<>>, <<>>) EXCEPT !.device_id = ""],
    [Payload("S1", "Stop", <<>>, <<>>) EXCEPT !.timestamp_ok = FALSE] }

VARIABLES
  now,            \* the clock
  ticks,          \* Tick steps taken
  auth_failures,  \* AuthFailureMap: ip -> [count, start]
  key_rate_limits,\* KeyRateLimitMap: key id -> [count, start]
  api_keys,       \* rows of the api_keys table
  last_used,      \* api_keys.last_used: key id -> <<>> or <<time>>
  req,            \* per slot: the request in flight
  resp,           \* the response most recently returned
  admitted        \* per key id: requests admitted by the quota in its current window

authVars == <<auth_failures, key_rate_limits, api_keys, last_used, req, resp, admitted>>

VARIABLES
  devices,              \* table devices: device_id -> row
  sessions,             \* table sessions: session_id -> row
  events,               \* table events: id -> <<row>>, <<>> once deleted
  notifications,        \* table notifications: a set of rows
  metadata,             \* table metadata: the persisted version counters
  version,              \* AppState.version
  notification_version, \* AppState.notification_version
  last_cleanup,         \* AppState.last_cleanup
  cleanup_tasks,        \* cleanup tasks spawned and not yet run
  insert_failed,        \* ids of the events whose insert_notification returned Err
  hreq,                 \* per handler slot: the run of events_handler in flight
  hresp                 \* the response most recently returned by a handler

ingestVars ==
  <<devices, sessions, events, notifications, metadata, version, notification_version,
    last_cleanup, cleanup_tasks, insert_failed, hreq, hresp>>

VARIABLES
  push_tokens,    \* the push_tokens table: the tokens in the order of their rows
  push_tasks,     \* the spawned push tasks, by the id of the event that spawned them
  sends,          \* the requests made to the provider, in order: [batch, token, outcome]
  cached_token,   \* ApnsClient.cached_token: <<>> or <<[issued_at, sig]>>
  minted,         \* provider tokens signed so far
  tcall           \* per caller slot: the call of get_or_refresh_token in flight

pushVars == <<push_tokens, push_tasks, sends, cached_token, minted, tcall>>

VARIABLES
  retention,      \* AppState.retention_{events,sessions,devices}_days
  cleanup_run     \* the cleanup task that is running: its next statement and its log

cleanupVars == <<retention, cleanup_run>>

VARIABLES
  hook,           \* the hook client's send command: where it is, its exit status
  hook_log        \* the lines the hook client has passed to its logger

clientVars == <<hook, hook_log>>

VARIABLES
  notif_cooldown, \* NotifCooldownMap: <<session_id, notif_type>> -> time of the last one sent
  dedup_last      \* the last call of should_send_notification and what it returned

dedupVars == <<notif_cooldown, dedup_last>>

\* the state outside the auth layer, the ingestion, the push task, the cleanup
\* task and the hook client
VARIABLES
  mutex,  \* the Mutex of each of the three maps: the thread that holds its guard, "" when free
  pooled  \* the threads that hold a connection of the pool

lockVars == <<mutex, pooled>>

VARIABLES
  conn_txn,  \* per connection of the pool: a transaction was begun on it and not ended
  conn_of    \* per run of events_handler: the connection it took, <<>> when it has none

poolVars == <<conn_txn, conn_of>>

VARIABLES
  poll  \* the polling client: its cursor (<<>> before the first row) and the ids it received

pollVars == <<poll>>

restVars == <<dedupVars, lockVars, poolVars, pollVars>>

\* ------------------------------------------------------------ auth.rs, pure

Range(s) == {s[i] : i \in DOMAIN s}

\* extract_client_ip
ExtractClientIp(h) ==
  IF h.xff # <<>> /\ h.xff[1] \in ValidIps THEN h.xff[1]
  ELSE IF h.xri # <<>> /\ h.xri[1] \in ValidIps THEN h.xri[1]
  ELSE FallbackIp

\* extract_bearer_token without the check of the "Bearer " prefix
ExtractBearerTokenAnyScheme(h) ==
  IF h.auth # <<>> THEN <<h.auth[2]>> ELSE <<>>

\* extract_bearer_token: <<>> is None, <<t>> is Some(t)
ExtractBearerToken(h) ==
  IF h.auth # <<>> /\ h.auth[1] = "Bearer" THEN <<h.auth[2]>> ELSE <<>>

\* Scope::from_str after trim
ScopeFromStr(s) ==
  CASE s \in {"read", " read", "read "} -> <<"Read">>
    [] s \in {"write", " write", "write "} -> <<"Write">>
    [] OTHER -> <<>>

\* parse_scopes
ParseScopes(s) == {ScopeFromStr(p)[1] : p \in {q \in Range(s) : ScopeFromStr(q) # <<>>}}

\* row.rate_limit.map_or(DEFAULT, |v| u32::try_from(v).unwrap_or(DEFAULT));
\* every rate_limit of the model is below 2^31, so try_from fails on negatives only
EffectiveLimit(rl) ==
  IF rl = <<>> THEN DEFAULT_KEY_RATE_LIMIT
  ELSE IF rl[1] >= 0 THEN rl[1]
  ELSE DEFAULT_KEY_RATE_LIMIT

\* a check that evicts nothing
RetainAll(m, t, window) == m

\* retain with the window's last instant kept: <= where the code has <
RetainInclusive(m, t, window) ==
  [k \in {k \in DOMAIN m : t - m[k].start <= window} |-> m[k]]

\* guard.retain(|_, (_, start)| now.duration_since(*start) < window)
Retain(m, t, window) ==
  [k \in {k \in DOMAIN m : t - m[k].start < window} |-> m[k]]

\* the lockout test with > where the code has >=
IsLimitedStrict(m, ip) == ip \in DOMAIN m /\ m[ip].count > MAX_FAILURES

\* is_some_and(|(count, _)| *count >= MAX_FAILURES)
IsLimited(m, ip) == ip \in DOMAIN m /\ m[ip].count >= MAX_FAILURES

\* saturating_add(1) on u32; the counters of the model stay far below 2^32 - 1
SatInc(n) == n + 1

\* record_auth_failure with the window test inverted: the entry is reset while
\* its window is still open
RecordAuthFailureReset(m, ip, t) ==
  LET e0 == IF ip \in DOMAIN m THEN m[ip] ELSE [count |-> 0, start |-> t]
      e1 == IF t - e0.start < FAILURE_WINDOW THEN [count |-> 0, start |-> t] ELSE e0
      e2 == [e1 EXCEPT !.count = e1.count + 1]
  IN  [k \in DOMAIN m \cup {ip} |-> IF k = ip THEN e2 ELSE m[k]]

\* the map after record_auth_failure(map, ip) at time t
RecordAuthFailure(m, ip, t) ==
  LET e0 == IF ip \in DOMAIN m THEN m[ip] ELSE [count |-> 0, start |-> t]
      e1 == IF t - e0.start >= FAILURE_WINDOW THEN [count |-> 0, start |-> t] ELSE e0
      e2 == [e1 EXCEPT !.count = SatInc(e1.count)]
  IN  [k \in DOMAIN m \cup {ip} |-> IF k = ip THEN e2 ELSE m[k]]

\* a quota whose window starts again at every request
KeyRateMapAfterSliding(m, kid, t) ==
  LET m1 == Retain(m, t, KEY_RATE_WINDOW)
      e0 == IF kid \in DOMAIN m1 THEN m1[kid] ELSE [count |-> 0, start |-> t]
      e2 == [count |-> SatInc(e0.count), start |-> t]
  IN  [k \in DOMAIN m1 \cup {kid} |-> IF k = kid THEN e2 ELSE m1[k]]

\* the map after check_key_rate_limit(map, key_id, limit) at time t
KeyRateMapAfter(m, kid, t) ==
  LET m1 == Retain(m, t, KEY_RATE_WINDOW)
      e0 == IF kid \in DOMAIN m1 THEN m1[kid] ELSE [count |-> 0, start |-> t]
      e1 == IF t - e0.start >= KEY_RATE_WINDOW THEN [count |-> 0, start |-> t] ELSE e0
      e2 == [e1 EXCEPT !.count = SatInc(e1.count)]
  IN  [k \in DOMAIN m1 \cup {kid} |-> IF k = kid THEN e2 ELSE m1[k]]

\* the quota test with >= where the code has >
KeyRateExceededEarly(m2, kid, limit) == m2[kid].count >= limit

\* whether check_key_rate_limit returns Err(RateLimited), from the map it leaves
KeyRateExceeded(m2, kid, limit) == m2[kid].count > limit

\* find_api_key_by_key answering from the rows the table held at startup
FindApiKeyByKeyStale(rows, token) == {r \in KeyRows : r.key = token}

\* find_api_key_by_key
FindApiKeyByKey(rows, token) == {r \in rows : r.key = token}

\* the scope check that accepts any key holding some scope
ScopeAllowsAny(row, cap) == ParseScopes(row.scopes) # {}

\* scopes.contains(required_scope)
ScopeAllows(row, cap) == cap \in ParseScopes(row.scopes)

\* the peer check that lets a request without ConnectInfo through
PeerIsLoopbackOrAbsent(peer) == peer # "remote"

\* addr.ip().is_loopback(), of a ConnectInfo that is present
PeerIsLoopback(peer) == peer = "loopback"

\* ------------------------------------------------------- auth.rs, requests

Idle ==
  [pc |-> "idle", cap |-> "", ip |-> "", hdr |-> <<>>, tok |-> <<>>, peer |-> "", kid |-> "",
   lim |-> 0]

NoResp ==
  [cap |-> "", ip |-> "", hdr |-> <<>>, tok |-> <<>>, peer |-> "", kid |-> "", res |-> "none",
   stage |-> ""]

\* the response a request returns: what was asked (route, origin, Authorization
\* header, token, peer), the key found, the outcome, and the place of
\* resolve_auth / from_request_parts that returned it
Reply(r, res, stage) ==
  [cap |-> r.cap, ip |-> r.ip, hdr |-> r.hdr, tok |-> r.tok, peer |-> r.peer, kid |-> r.kid,
   res |-> res, stage |-> stage]

\* the counter of the key that bears `token`, 0 when it has none
CountOfToken(token) ==
  LET ids == {r.id : r \in FindApiKeyByKey(api_keys, token)} \cap DOMAIN key_rate_limits
  IN  IF ids = {} THEN 0 ELSE key_rate_limits[CHOOSE i \in ids : TRUE].count

\* resolve_auth up to the master-key comparison: check_rate_limit, then the
\* bearer token; the steps after it are RecordFailure or Lookup
BeginAuth(s, h, cap) ==
  LET ip == ExtractClientIp(h)
      tok == ExtractBearerToken(h)
      m1 == Retain(auth_failures, now, FAILURE_WINDOW)
      r == [Idle EXCEPT !.cap = cap, !.ip = ip, !.hdr = h.auth, !.tok = tok]
  IN  /\ req[s].pc = "idle"
      /\ auth_failures' = m1
      /\ IF IsLimited(m1, ip)
           THEN /\ resp' = Reply(r, "RateLimited", "ip")
                /\ req' = req
         ELSE IF tok = <<>>
           THEN /\ req' = [req EXCEPT ![s] = [r EXCEPT !.pc = "fail"]]
                /\ resp' = resp
         ELSE IF tok[1] = master_key
           THEN /\ resp' = Reply(r, "Ok", "master")
                /\ req' = req
         ELSE /\ req' = [req EXCEPT ![s] = [r EXCEPT !.pc = "lookup"]]
              /\ resp' = resp
      /\ UNCHANGED <<key_rate_limits, api_keys, last_used, admitted>>

\* AdminAuth::from_request_parts up to the master-key comparison
BeginAdmin(s, h, peer) ==
  LET ip == ExtractClientIp(h)
      tok == ExtractBearerToken(h)
      m1 == Retain(auth_failures, now, FAILURE_WINDOW)
      r == [Idle EXCEPT !.cap = "Admin", !.ip = ip, !.hdr = h.auth, !.tok = tok, !.peer = peer]
  IN  /\ req[s].pc = "idle"
      /\ IF ~PeerIsLoopback(peer)
           THEN /\ resp' = Reply(r, "Forbidden", "peer")
                /\ UNCHANGED <<auth_failures, req>>
         ELSE /\ auth_failures' = m1
              /\ IF IsLimited(m1, ip)
                   THEN /\ resp' = Reply(r, "RateLimited", "ip")
                        /\ req' = req
                 ELSE IF tok = <<>> \/ tok[1] # master_key
                   THEN /\ req' = [req EXCEPT ![s] = [r EXCEPT !.pc = "fail"]]
                        /\ resp' = resp
                 ELSE /\ resp' = Reply(r, "Ok", "master")
                      /\ req' = req
      /\ UNCHANGED <<key_rate_limits, api_keys, last_used, admitted>>

\* record_auth_failure, then Err(Unauthorized)
RecordFailure(s) ==
  /\ req[s].pc = "fail"
  /\ auth_failures' = RecordAuthFailure(auth_failures, req[s].ip, now)
  /\ resp' = Reply(req[s], "Unauthorized", "token")
  /\ req' = [req EXCEPT ![s] = Idle]
  /\ UNCHANGED <<key_rate_limits, api_keys, last_used, admitted>>

\* db_pool.get() and find_api_key_by_key, then the scope check
Lookup(s, dbOk) ==
  LET rows == FindApiKeyByKey(api_keys, req[s].tok[1])
      row == CHOOSE r \in rows : TRUE
  IN  /\ req[s].pc = "lookup"
      /\ IF ~dbOk
           THEN /\ resp' = Reply(req[s], "Internal", "lookup")
                /\ req' = [req EXCEPT ![s] = Idle]
         ELSE IF rows = {}
           THEN /\ req' = [req EXCEPT ![s].pc = "fail"]
                /\ resp' = resp
         ELSE IF ~ScopeAllows(row, req[s].cap)
           THEN /\ resp' = Reply([req[s] EXCEPT !.kid = row.id], "Forbidden", "scope")
                /\ req' = [req EXCEPT ![s] = Idle]
         ELSE /\ req' = [req EXCEPT ![s].pc = "quota", ![s].kid = row.id,
                                    ![s].lim = EffectiveLimit(row.rate_limit)]
              /\ resp' = resp
      /\ UNCHANGED <<auth_failures, key_rate_limits, api_keys, last_used, admitted>>

\* the reference count of the quota: per key, the start of its current
\* 60-second window, the requests seen in it and the requests admitted in it
Observe(a, kid, ok) ==
  LET fresh == kid \notin DOMAIN a \/ now - a[kid].start >= KEY_RATE_WINDOW
      e0 == IF fresh THEN [start |-> now, seen |-> 0, ok |-> 0] ELSE a[kid]
      e1 == [e0 EXCEPT !.seen = @ + 1, !.ok = IF ok THEN @ + 1 ELSE @]
  IN  [k \in DOMAIN a \cup {kid} |-> IF k = kid THEN e1 ELSE a[k]]

\* check_key_rate_limit(&state.key_rate_limits, &row.id, effective_limit)
Quota(s) ==
  LET m2 == KeyRateMapAfter(key_rate_limits, req[s].kid, now)
      over == KeyRateExceeded(m2, req[s].kid, req[s].lim)
  IN  /\ req[s].pc = "quota"
      /\ key_rate_limits' = m2
      /\ admitted' = Observe(admitted, req[s].kid, ~over)
      /\ IF over
           THEN /\ resp' = Reply(req[s], "RateLimited", "quota")
                /\ req' = [req EXCEPT ![s] = Idle]
           ELSE /\ req' = [req EXCEPT ![s].pc = "touch"]
                /\ resp' = resp
      /\ UNCHANGED <<auth_failures, api_keys, last_used>>

\* UPDATE api_keys SET last_used = ?1 without the WHERE clause
update_api_key_last_used_all(tbl, id, t) == [k \in DOMAIN tbl |-> <<t>>]

\* update_api_key_last_used: UPDATE api_keys SET last_used = ?1 WHERE id = ?2
update_api_key_last_used(tbl, id, t) ==
  [k \in DOMAIN tbl |-> IF k = id THEN <<t>> ELSE tbl[k]]

\* update_api_key_last_used (its result is dropped), then Ok(())
Touch(s, dbOk) ==
  /\ req[s].pc = "touch"
  /\ last_used' = IF dbOk
                    THEN update_api_key_last_used(last_used, req[s].kid, now)
                    ELSE last_used
  /\ resp' = Reply(req[s], "Ok", "key")
  /\ req' = [req EXCEPT ![s] = Idle]
  /\ UNCHANGED <<auth_failures, key_rate_limits, api_keys, admitted>>

\* delete_api_key: DELETE FROM api_keys WHERE id = ?1
delete_api_key(rows, id) == {r \in rows : r.id # id}

\* delete_api_key_handler of a request AdminAuth has let through
DeleteApiKey(id, dbOk) ==
  /\ api_keys' = IF dbOk THEN delete_api_key(api_keys, id) ELSE api_keys
  /\ last_used' = [k \in {r.id : r \in api_keys'} |-> last_used[k]]
  /\ hresp' = [route |-> "admin_delete", res |-> IF dbOk THEN "Ok" ELSE "Internal", id |-> id]
  /\ UNCHANGED <<auth_failures, key_rate_limits, req, resp, admitted>>

\* the clock advances to its next instant
Tick(pattern) ==
  /\ ticks < MaxTicks
  /\ now' = now + pattern[(ticks % Len(pattern)) + 1]
  /\ ticks' = ticks + 1

AuthInit ==
  /\ auth_failures = <<>>
  /\ key_rate_limits = <<>>
  /\ api_keys = KeyRows
  /\ last_used = [k \in KeyIds |-> <<>>]
  /\ req = [s \in Slots |-> Idle]
  /\ resp = NoResp
  /\ admitted = <<>>

\* ------------------------------------------- handlers/events.rs, pure parts

\* a string is the sequence of the UTF-8 widths of its characters
RECURSIVE ByteLen(_)
ByteLen(p) == IF p = <<>> THEN 0 ELSE p[1] + ByteLen(Tail(p))

\* &p[..boundary]: the longest prefix of whole characters within `limit` bytes
RECURSIVE SafePrefix(_, _)
SafePrefix(p, limit) ==
  IF p = <<>> \/ p[1] > limit THEN <<>>
  ELSE <<p[1]>> \o SafePrefix(Tail(p), limit - p[1])

\* the ellipsis character appended to a truncated title (3 bytes)
Ellipsis == <<3>>

\* the title of a UserPromptSubmit event: <<>> is None, <<t>> is Some(t)
TitleOf(hook_event_name, prompt) ==
  IF hook_event_name = "UserPromptSubmit" /\ prompt # <<>>
    THEN IF ByteLen(prompt[1]) > 200
           THEN <<SafePrefix(prompt[1], 200) \o Ellipsis>>
           ELSE <<prompt[1]>>
    ELSE <<>>

\* derive_session_status
derive_session_status(hook_event_name, notification_type) ==
  CASE hook_event_name \in {"SessionStart", "UserPromptSubmit", "SubagentStart", "SubagentStop"}
         -> <<"active">>
    [] hook_event_name = "Stop" -> <<"waiting_for_input">>
    [] hook_event_name = "SessionEnd" -> <<"ended">>
    [] hook_event_name = "PermissionRequest" -> <<"waiting_for_permission">>
    [] hook_event_name = "Notification" ->
         (CASE notification_type = <<"permission_prompt">> -> <<"waiting_for_permission">>
            [] notification_type = <<"idle_prompt">> -> <<"idle">>
            [] OTHER -> <<>>)
    [] OTHER -> <<>>

\* title_from_session: the session's title unless it is None or empty
title_from_session(session_title, fallback) ==
  IF session_title # <<>> /\ session_title[1] # <<>> THEN session_title[1] ELSE fallback

\* the body of a permission notification, from (tool_name, message); a string
\* built by format! is the sequence of its parts, " - " is the dash between them
PermissionBody(tool_name, message) ==
  CASE tool_name # <<>> /\ message # <<>> ->
         <<"Permission required: ", tool_name[1], " - ", message[1]>>
    [] tool_name # <<>> /\ message = <<>> -> <<"Permission required: ", tool_name[1]>>
    [] tool_name = <<>> /\ message # <<>> -> <<"Permission required: ", message[1]>>
    [] OTHER -> <<"A session needs permission to continue">>

\* should_notify with the PermissionRequest arm missing
should_notify_without_request(hook_event_name, notification_type, message, session_title, tool_name) ==
  CASE hook_event_name = "Stop" ->
         <<[title |-> title_from_session(session_title, "Session Stopped"),
            body |-> <<"Session stopped: ", IF message # <<>> THEN message[1] ELSE "No reason given">>,
            type |-> "stop"]>>
    [] hook_event_name = "Notification" /\ notification_type = <<"permission_prompt">> ->
         <<[title |-> title_from_session(session_title, "Permission Required"),
            body |-> PermissionBody(tool_name, message),
            type |-> "permission_prompt"]>>
    [] hook_event_name = "Notification" /\ notification_type = <<"idle_prompt">> ->
         <<[title |-> title_from_session(session_title, "Session Idle"),
            body |-> <<"Session idle: ", IF message # <<>> THEN message[1] ELSE "Waiting for input">>,
            type |-> "idle_prompt"]>>
    [] OTHER -> <<>>

\* should_notify: <<>> is None, <<[title, body, type]>> is Some
should_notify(hook_event_name, notification_type, message, session_title, tool_name) ==
  CASE hook_event_name = "Stop" ->
         <<[title |-> title_from_session(session_title, "Session Stopped"),
            body |-> <<"Session stopped: ", IF message # <<>> THEN message[1] ELSE "No reason given">>,
            type |-> "stop"]>>
    [] hook_event_name = "Notification" /\ notification_type = <<"permission_prompt">> ->
         <<[title |-> title_from_session(session_title, "Permission Required"),
            body |-> PermissionBody(tool_name, message),
            type |-> "permission_prompt"]>>
    [] hook_event_name = "Notification" /\ notification_type = <<"idle_prompt">> ->
         <<[title |-> title_from_session(session_title, "Session Idle"),
            body |-> <<"Session idle: ", IF message # <<>> THEN message[1] ELSE "Waiting for input">>,
            type |-> "idle_prompt"]>>
    [] hook_event_name = "PermissionRequest" ->
         <<[title |-> title_from_session(session_title, "Permission Required"),
            body |-> PermissionBody(tool_name, message),
            type |-> "permission_prompt"]>>
    [] OTHER -> <<>>

\* a validation that tests the device id only
ValidateDeviceOnly(p) == IF p.device_id = "" THEN "device_id is required" ELSE ""

\* the validation of events_handler: "" when the payload passes, else the
\* message of the BadRequest
Validate(p) ==
  IF p.device_id = "" THEN "device_id is required"
  ELSE IF p.session_id = "" THEN "session_id is required"
  ELSE IF p.hook_event_name = "" THEN "hook_event_name is required"
  ELSE IF ~p.timestamp_ok THEN "timestamp must be valid RFC 3339"
  ELSE ""

\* ------------------------------------------------------ db/queries.rs, pure

\* INSERT OR REPLACE INTO devices: the row of the device is made anew
upsert_device_replace(tbl, p, t) ==
  [d \in DOMAIN tbl \cup {p.device_id} |->
     IF d = p.device_id
       THEN [device_name |-> p.device_name, platform |-> p.platform,
             first_seen |-> t, last_seen |-> t]
       ELSE tbl[d]]

\* upsert_device
upsert_device(tbl, p, t) ==
  LET row == IF p.device_id \in DOMAIN tbl
               THEN [tbl[p.device_id] EXCEPT !.device_name = p.device_name, !.last_seen = t]
               ELSE [device_name |-> p.device_name, platform |-> p.platform,
                     first_seen |-> t, last_seen |-> t]
  IN  [d \in DOMAIN tbl \cup {p.device_id} |-> IF d = p.device_id THEN row ELSE tbl[d]]

\* an upsert whose conflict clause is title = COALESCE(excluded.title, sessions.title)
upsert_session_title_overwrite(tbl, p, t, status, title) ==
  LET sid == p.session_id
      r1 == IF sid \in DOMAIN tbl
              THEN [tbl[sid] EXCEPT !.last_event = t,
                                    !.cwd = IF p.cwd # <<>> THEN p.cwd ELSE @,
                                    !.title = IF title # <<>> THEN title ELSE @]
              ELSE [device_id |-> p.device_id, started_at |-> t, last_event |-> t,
                    status |-> IF status # <<>> THEN status[1] ELSE "active",
                    cwd |-> p.cwd, title |-> title]
      r2 == IF status # <<>> THEN [r1 EXCEPT !.status = status[1]] ELSE r1
  IN  [s \in DOMAIN tbl \cup {sid} |-> IF s = sid THEN r2 ELSE tbl[s]]

\* an upsert whose conflict clause also has status = excluded.status
upsert_session_status_overwrite(tbl, p, t, status, title) ==
  LET sid == p.session_id
      initial_status == IF status # <<>> THEN status[1] ELSE "active"
      r1 == IF sid \in DOMAIN tbl
              THEN [tbl[sid] EXCEPT !.last_event = t,
                                    !.cwd = IF p.cwd # <<>> THEN p.cwd ELSE @,
                                    !.title = IF @ # <<>> THEN @ ELSE title,
                                    !.status = initial_status]
              ELSE [device_id |-> p.device_id, started_at |-> t, last_event |-> t,
                    status |-> initial_status, cwd |-> p.cwd, title |-> title]
  IN  [s \in DOMAIN tbl \cup {sid} |-> IF s = sid THEN r1 ELSE tbl[s]]

\* upsert_session: the INSERT .. ON CONFLICT, then the UPDATE of the status
upsert_session(tbl, p, t, status, title) ==
  LET sid == p.session_id
      r1 == IF sid \in DOMAIN tbl
              THEN [tbl[sid] EXCEPT !.last_event = t,
                                    !.cwd = IF p.cwd # <<>> THEN p.cwd ELSE @,
                                    !.title = IF @ # <<>> THEN @ ELSE title]
              ELSE [device_id |-> p.device_id, started_at |-> t, last_event |-> t,
                    status |-> IF status # <<>> THEN status[1] ELSE "active",
                    cwd |-> p.cwd, title |-> title]
      r2 == IF status # <<>> THEN [r1 EXCEPT !.status = status[1]] ELSE r1
  IN  [s \in DOMAIN tbl \cup {sid} |-> IF s = sid THEN r2 ELSE tbl[s]]

\* a serialization that keeps only the fields the server reads
EventJsonTrimmed(p) ==
  [session_id |-> p.session_id, hook_event_name |-> p.hook_event_name, cwd |-> p.cwd,
   tool_name |-> p.tool_name, notification_type |-> p.notification_type,
   message |-> p.message, prompt |-> p.prompt, tool_input |-> <<>>, extra |-> <<>>]

\* serde_json::to_string(&payload.event): EventData derives Serialize with
\* every field it names and the flattened extra map
EventJson(p) ==
  [session_id |-> p.session_id, hook_event_name |-> p.hook_event_name, cwd |-> p.cwd,
   tool_name |-> p.tool_name, notification_type |-> p.notification_type,
   message |-> p.message, prompt |-> p.prompt, tool_input |-> p.tool_input,
   extra |-> p.extra]

\* the row insert_event adds; its id is its place in the table
EventRow(p, t) ==
  [device_id |-> p.device_id, session_id |-> p.session_id,
   hook_event_name |-> p.hook_event_name, notification_type |-> p.notification_type,
   tool_name |-> p.tool_name, received_at |-> t, event_json |-> EventJson(p)]

\* get_session_title
get_session_title(tbl, sid) == IF sid \in DOMAIN tbl THEN tbl[sid].title ELSE <<>>

\* the row insert_notification adds; the uuid of the notification of event
\* `event_id` is written event_id: one is drawn per event and never twice
NotificationRow(r) ==
  [id |-> r.event_id, event_id |-> r.event_id, session_id |-> r.p[1].session_id,
   device_id |-> r.p[1].device_id, title |-> r.notif[1].title, body |-> r.notif[1].body,
   notification_type |-> r.notif[1].type, created_at |-> r.received_at,
   acknowledged |-> FALSE]

\* the rows of a table as a sequence, in the order of their ids
InIdOrder(rows) ==
  LET ids == {n.id : n \in rows}
      top == IF ids = {} THEN 0 ELSE CHOOSE x \in ids : \A y \in ids : y <= x
      idseq == SelectSeq([k \in 1..top |-> k], LAMBDA k : k \in ids)
  IN  [i \in 1..Len(idseq) |-> CHOOSE n \in rows : n.id = idseq[i]]

\* ORDER BY created_at ASC, rows of equal created_at in the order of their ids
ByCreatedAt(rows) ==
  SortSeq(InIdOrder(rows),
          LAMBDA a, b : \/ a.created_at < b.created_at
                        \/ a.created_at = b.created_at /\ a.id < b.id)

\* list_notifications: WHERE created_at > :after_timestamp when a cursor is
\* given, ORDER BY created_at ASC LIMIT :limit; SQLite puts no upper bound on
\* the rows when the LIMIT expression is negative
list_notifications(rows, after_timestamp, limit) ==
  LET matching == {n \in rows : after_timestamp = <<>> \/ n.created_at > after_timestamp[1]}
      sorted == ByCreatedAt(matching)
  IN  IF limit < 0 \/ limit >= Len(sorted) THEN sorted ELSE SubSeq(sorted, 1, limit)

\* acknowledge_notifications: UPDATE .. SET acknowledged = 1 WHERE id IN (ids)
acknowledge_notifications(rows, ids) ==
  {IF n.id \in ids THEN [n EXCEPT !.acknowledged = TRUE] ELSE n : n \in rows}

\* delete_old_events: the sequence without the rows received before the cutoff;
\* a deleted row leaves a gap, its id is not used again (AUTOINCREMENT)
delete_old_events(rows, t, days) ==
  [i \in DOMAIN rows |->
     IF rows[i] # <<>> /\ rows[i][1].received_at < t - days * 86400 THEN <<>> ELSE rows[i]]

\* delete_expired_notifications: 24 hours
delete_expired_notifications(rows, t) == {n \in rows : ~(n.created_at < t - 24 * 3600)}

\* delete_stale_sessions
delete_stale_sessions(tbl, evs, notifs, t, days) ==
  LET used == {evs[i][1].session_id : i \in {j \in DOMAIN evs : evs[j] # <<>>}}
                 \cup {n.session_id : n \in notifs}
      gone == {s \in DOMAIN tbl : tbl[s].last_event < t - days * 86400 /\ s \notin used}
  IN  [s \in DOMAIN tbl \ gone |-> tbl[s]]

\* delete_stale_devices
delete_stale_devices(tbl, sess, evs, t, days) ==
  LET used == {evs[i][1].device_id : i \in {j \in DOMAIN evs : evs[j] # <<>>}}
                 \cup {sess[s].device_id : s \in DOMAIN sess}
      gone == {d \in DOMAIN tbl : tbl[d].last_seen < t - days * 86400 /\ d \notin used}
  IN  [d \in DOMAIN tbl \ gone |-> tbl[d]]

\* ------------------------------------------- handlers/events.rs, the handler

HIdle ==
  [pc |-> "idle", p |-> <<>>, received_at |-> 0, event_id |-> 0, notif |-> <<>>,
   nv |-> 0, now_secs |-> 0]

NoHResp == [route |-> "", res |-> "none"]

\* Utc::now(), in seconds
UtcNow == BootTime + now

\* the handler slots are interchangeable: a request takes the first idle one
FreeHandler(h) == hreq[h].pc = "idle" /\ (h = "h2" => hreq["h1"].pc # "idle")

\* ping_handler of an authorized request: the two counters it reports
PingVersions == [data_version |-> version, notification_version |-> notification_version]

\* main at startup: the counters as loaded from the metadata table, 0 for a
\* key that has no row
LoadedAtStartup ==
  [data_version |-> IF metadata.data_version = <<>> THEN 0 ELSE metadata.data_version[1],
   notification_version |-> IF metadata.notification_version = <<>> THEN 0
                            ELSE metadata.notification_version[1]]

\* events_handler of an authorized request, up to the transaction: the
\* validation, received_at, db_pool.get()
BeginEvent(h, p, poolOk) ==
  /\ hreq[h].pc = "idle"
  /\ IF Validate(p) # ""
       THEN /\ hresp' = [route |-> "events", res |-> "BadRequest"]
            /\ hreq' = hreq
     ELSE IF ~poolOk
       THEN /\ hresp' = [route |-> "events", res |-> "Internal"]
            /\ hreq' = hreq
     ELSE /\ hreq' = [hreq EXCEPT ![h] = [HIdle EXCEPT !.pc = "txn", !.p = <<p>>,
                                                      !.received_at = UtcNow]]
          /\ hresp' = hresp
  /\ UNCHANGED <<devices, sessions, events, notifications, version, notification_version,
                 metadata, last_cleanup, cleanup_tasks, insert_failed>>

\* the statements of the transaction in their order
TxnSteps == <<"device", "session", "event">>

\* the tables as the connection of the handler sees them once the first n
\* statements of the transaction have run
TxnWork(tbls, p, t, n) ==
  LET status == derive_session_status(p.hook_event_name, p.notification_type)
      title == TitleOf(p.hook_event_name, p.prompt)
  IN  [devices |-> IF n >= 1 THEN upsert_device(tbls.devices, p, t) ELSE tbls.devices,
       sessions |-> IF n >= 2 THEN upsert_session(tbls.sessions, p, t, status, title)
                    ELSE tbls.sessions,
       events |-> IF n >= 3 THEN Append(tbls.events, <<EventRow(p, t)>>) ELSE tbls.events]

\* the statements that ran before the one that failed
RanBefore(out) == (CHOOSE i \in 1..Len(TxnSteps) : TxnSteps[i] = out) - 1

\* a failing statement without the ROLLBACK: what ran stays
RollbackKeepsWork(pre, work) == work

\* let _ = conn.execute_batch("ROLLBACK"): the tables are as before BEGIN
Rollback(pre, work) == pre

\* BEGIN .. COMMIT: "ok" commits; "begin" is a failing BEGIN; "device",
\* "session", "event" is that statement failing, followed by the ROLLBACK;
\* "late" is a failing set_metadata or COMMIT, after the fetch_add of the
\* version: the handler returns without ROLLBACK and its writes stay
\* uncommitted, invisible to the other connections
Txn(h, out) ==
  LET r == hreq[h]
      p == r.p[1]
      pre == [devices |-> devices, sessions |-> sessions, events |-> events]
      done == TxnWork(pre, p, r.received_at, Len(TxnSteps))
      undone == Rollback(pre, TxnWork(pre, p, r.received_at, RanBefore(out)))
  IN  /\ r.pc = "txn"
      /\ IF out = "ok"
           THEN /\ devices' = done.devices
                /\ sessions' = done.sessions
                /\ events' = done.events
                /\ version' = version + 1
                /\ metadata' = [metadata EXCEPT !.data_version = <<version + 1>>]
                /\ hreq' = [hreq EXCEPT ![h].pc = "title", ![h].event_id = Len(events) + 1]
                /\ hresp' = hresp
         ELSE IF out \in Range(TxnSteps)
           THEN /\ devices' = undone.devices
                /\ sessions' = undone.sessions
                /\ events' = undone.events
                /\ hresp' = [route |-> "events", res |-> "Internal"]
                /\ hreq' = [hreq EXCEPT ![h] = HIdle]
                /\ UNCHANGED <<version, metadata>>
           ELSE /\ version' = IF out = "late" THEN version + 1 ELSE version
                /\ hresp' = [route |-> "events", res |-> "Internal"]
                /\ hreq' = [hreq EXCEPT ![h] = HIdle]
                /\ UNCHANGED <<devices, sessions, events, metadata>>
      /\ UNCHANGED <<notifications, notification_version, last_cleanup, cleanup_tasks,
                     insert_failed>>

\* get_session_title(..).unwrap_or(None), then should_notify
ReadTitle(h, dbOk) ==
  LET r == hreq[h]
      p == r.p[1]
      session_title == IF dbOk THEN get_session_title(sessions, p.session_id) ELSE <<>>
      notif == should_notify(p.hook_event_name, p.notification_type, p.message,
                             session_title, p.tool_name)
  IN  /\ r.pc = "title"
      /\ hreq' = [hreq EXCEPT ![h].pc = IF notif = <<>> THEN "gate" ELSE "insert",
                              ![h].notif = notif]
      /\ UNCHANGED <<devices, sessions, events, notifications, version, notification_version,
                     metadata, last_cleanup, cleanup_tasks, insert_failed, hresp>>

\* FOREIGN KEY (session_id) REFERENCES sessions(session_id) of notifications,
\* with PRAGMA foreign_keys = ON
ForeignKeyOk(r) == r.p[1].session_id \in DOMAIN sessions

\* insert_notification(..)?: a failing insert ends the handler with Internal
InsertNotificationSurfaced(h, dbOk) ==
  /\ hreq[h].pc = "insert"
  /\ notifications' = IF dbOk THEN notifications \cup {NotificationRow(hreq[h])}
                      ELSE notifications
  /\ insert_failed' = IF dbOk THEN insert_failed ELSE insert_failed \cup {hreq[h].event_id}
  /\ hreq' = [hreq EXCEPT ![h] = IF dbOk THEN [@ EXCEPT !.pc = "bump"] ELSE HIdle]
  /\ hresp' = IF dbOk THEN hresp ELSE [route |-> "events", res |-> "Internal"]
  /\ UNCHANGED <<devices, sessions, events, version, notification_version, metadata,
                 last_cleanup, cleanup_tasks>>

\* let _ = insert_notification(..): a failing insert is dropped
InsertNotification(h, dbOk) ==
  /\ hreq[h].pc = "insert"
  /\ LET ok == dbOk /\ ForeignKeyOk(hreq[h])
     IN  /\ notifications' = IF ok THEN notifications \cup {NotificationRow(hreq[h])}
                             ELSE notifications
         /\ insert_failed' = IF ok THEN insert_failed
                             ELSE insert_failed \cup {hreq[h].event_id}
  /\ hreq' = [hreq EXCEPT ![h].pc = "bump"]
  /\ UNCHANGED <<devices, sessions, events, version, notification_version, metadata,
                 last_cleanup, cleanup_tasks, hresp>>

\* notification_version.fetch_add(1) + 1
BumpNotificationVersion(h) ==
  /\ hreq[h].pc = "bump"
  /\ notification_version' = notification_version + 1
  /\ hreq' = [hreq EXCEPT ![h].pc = "persist", ![h].nv = notification_version + 1]
  /\ UNCHANGED <<devices, sessions, events, notifications, version, metadata, last_cleanup,
                 cleanup_tasks, insert_failed, hresp>>

\* let _ = set_metadata("notification_version", ..); no APNs client is
\* configured, so no push task is spawned
PersistNotificationVersion(h, dbOk) ==
  /\ hreq[h].pc = "persist"
  /\ metadata' = IF dbOk THEN [metadata EXCEPT !.notification_version = <<hreq[h].nv>>]
                 ELSE metadata
  /\ hreq' = [hreq EXCEPT ![h].pc = "gate"]
  /\ UNCHANGED <<devices, sessions, events, notifications, version, notification_version,
                 last_cleanup, cleanup_tasks, insert_failed, hresp>>

\* the time guard of the cleanup: now_secs, last_cleanup.load, the comparison
GateLoad(h) ==
  LET diff == IF UtcNow >= last_cleanup THEN UtcNow - last_cleanup ELSE 0
  IN  /\ hreq[h].pc = "gate"
      /\ IF diff >= 5 * 60
           THEN /\ hreq' = [hreq EXCEPT ![h].pc = "store", ![h].now_secs = UtcNow]
                /\ hresp' = hresp
           ELSE /\ hreq' = [hreq EXCEPT ![h] = HIdle]
                /\ hresp' = [route |-> "events", res |-> "Ok"]
      /\ UNCHANGED <<devices, sessions, events, notifications, version, notification_version,
                     metadata, last_cleanup, cleanup_tasks, insert_failed>>

\* last_cleanup.store(now_secs), the cleanup task is spawned, Ok is returned
GateStore(h) ==
  /\ hreq[h].pc = "store"
  /\ last_cleanup' = hreq[h].now_secs
  /\ cleanup_tasks' = cleanup_tasks + 1
  /\ hreq' = [hreq EXCEPT ![h] = HIdle]
  /\ hresp' = [route |-> "events", res |-> "Ok"]
  /\ UNCHANGED <<devices, sessions, events, notifications, version, notification_version,
                 metadata, insert_failed>>

\* the spawned cleanup task: events, notifications, sessions, devices, in this
\* order; a failing pool.get() ends it before the first statement
CleanupTask(poolOk) ==
  LET e2 == delete_old_events(events, UtcNow, retention.events_days)
      n2 == delete_expired_notifications(notifications, UtcNow)
      s2 == delete_stale_sessions(sessions, e2, n2, UtcNow, retention.sessions_days)
      d2 == delete_stale_devices(devices, s2, e2, UtcNow, retention.devices_days)
  IN  /\ cleanup_tasks > 0
      /\ cleanup_tasks' = cleanup_tasks - 1
      /\ IF poolOk
           THEN events' = e2 /\ notifications' = n2 /\ sessions' = s2 /\ devices' = d2
           ELSE UNCHANGED <<events, notifications, sessions, devices>>
      /\ UNCHANGED <<version, notification_version, metadata, last_cleanup, insert_failed,
                     hreq, hresp>>

\* the statements of the cleanup task, in the order of the source
CleanupSteps == <<"events", "notifications", "sessions", "devices">>

\* no cleanup task running
CIdle == [pc |-> "idle", log |-> <<>>]

\* the windows of the default configuration
DefaultRetention ==
  [events_days |-> retention_events_days, sessions_days |-> retention_sessions_days,
   devices_days |-> retention_devices_days]

\* a spawned cleanup task starts: cleanup_pool.get(), whose failure ends it
CleanupBegin(poolOk) ==
  /\ cleanup_tasks > 0
  /\ cleanup_run.pc = "idle"
  /\ cleanup_tasks' = cleanup_tasks - 1
  /\ cleanup_run' = [pc |-> IF poolOk THEN CleanupSteps[1] ELSE "idle", log |-> <<>>]
  /\ UNCHANGED <<devices, sessions, events, notifications, version, notification_version,
                 metadata, last_cleanup, insert_failed, hreq, hresp, retention>>

\* the statement after step, "idle" after the last one
StepAfter(step) ==
  LET k == CHOOSE i \in 1..Len(CleanupSteps) : CleanupSteps[i] = step
  IN  IF k = Len(CleanupSteps) THEN "idle" ELSE CleanupSteps[k + 1]

\* a cleanup task that ends at its first failing statement
CleanupStepAborting(ok) ==
  LET step == cleanup_run.pc
  IN  /\ step # "idle"
      /\ events' = IF ok /\ step = "events"
                     THEN delete_old_events(events, UtcNow, retention.events_days)
                     ELSE events
      /\ notifications' = IF ok /\ step = "notifications"
                            THEN delete_expired_notifications(notifications, UtcNow)
                            ELSE notifications
      /\ sessions' = IF ok /\ step = "sessions"
                       THEN delete_stale_sessions(sessions, events, notifications, UtcNow,
                                                  retention.sessions_days)
                       ELSE sessions
      /\ devices' = IF ok /\ step = "devices"
                      THEN delete_stale_devices(devices, sessions, events, UtcNow,
                                                retention.devices_days)
                      ELSE devices
      /\ cleanup_run' = [pc |-> IF ok THEN StepAfter(step) ELSE "idle",
                         log |-> Append(cleanup_run.log, [step |-> step, ok |-> ok])]
      /\ UNCHANGED <<version, notification_version, metadata, last_cleanup, cleanup_tasks,
                     insert_failed, hreq, hresp, retention>>

\* one statement of the cleanup task: the delete of the table the task has
\* come to, as its own statement; an Err is logged and the task goes on
CleanupStep(ok) ==
  LET step == cleanup_run.pc
  IN  /\ step # "idle"
      /\ events' = IF ok /\ step = "events"
                     THEN delete_old_events(events, UtcNow, retention.events_days)
                     ELSE events
      /\ notifications' = IF ok /\ step = "notifications"
                            THEN delete_expired_notifications(notifications, UtcNow)
                            ELSE notifications
      /\ sessions' = IF ok /\ step = "sessions"
                       THEN delete_stale_sessions(sessions, events, notifications, UtcNow,
                                                  retention.sessions_days)
                       ELSE sessions
      /\ devices' = IF ok /\ step = "devices"
                      THEN delete_stale_devices(devices, sessions, events, UtcNow,
                                                retention.devices_days)
                      ELSE devices
      /\ cleanup_run' = [pc |-> StepAfter(step),
                         log |-> Append(cleanup_run.log, [step |-> step, ok |-> ok])]
      /\ UNCHANGED <<version, notification_version, metadata, last_cleanup, cleanup_tasks,
                     insert_failed, hreq, hresp, retention>>

CleanupInit ==
  /\ retention = DefaultRetention
  /\ cleanup_run = CIdle

\* list_notifications_handler of an authorized request: the limit it passes on
\* is query.limit.unwrap_or(50).min(200), on i64
ListLimit(limit) ==
  LET l == IF limit = <<>> THEN DEFAULT_LIST_LIMIT ELSE limit[1]
  IN  IF l < MAX_LIST_LIMIT THEN l ELSE MAX_LIST_LIMIT

ListNotifications(after, limit, dbOk) ==
  LET rows == list_notifications(notifications, after, ListLimit(limit))
  IN  /\ hresp' = IF dbOk
                    THEN [route |-> "notifications", res |-> "Ok",
                          ids |-> [i \in 1..Len(rows) |-> rows[i].id]]
                    ELSE [route |-> "notifications", res |-> "Internal", ids |-> <<>>]
      /\ UNCHANGED <<devices, sessions, events, notifications, version, notification_version,
                     metadata, last_cleanup, cleanup_tasks, insert_failed, hreq>>

\* acknowledge_notifications_handler of an authorized request
Acknowledge(ids, dbOk) ==
  /\ notifications' = IF dbOk /\ ids # {} THEN acknowledge_notifications(notifications, ids)
                      ELSE notifications
  /\ hresp' = [route |-> "ack", res |-> IF dbOk THEN "Ok" ELSE "Internal"]
  /\ UNCHANGED <<devices, sessions, events, version, notification_version, metadata,
                 last_cleanup, cleanup_tasks, insert_failed, hreq>>

IngestInit ==
  /\ devices = <<>>
  /\ sessions = <<>>
  /\ events = <<>>
  /\ notifications = {}
  /\ version = 0
  /\ notification_version = 0
  /\ metadata = [data_version |-> <<>>, notification_version |-> <<>>]
  /\ last_cleanup = 0
  /\ cleanup_tasks = 0
  /\ insert_failed = {}
  /\ hreq = [h \in HSlots |-> HIdle]
  /\ hresp = NoHResp

\* ------------------------------------------------- apns.rs and the push task

\* the push tokens a client registers; "" fails the validation
PushTokenNames == {"tok-1", "tok-2"}

\* what the provider answers to a send: <<status>>, or <<>> when the request fails
ProviderOutcomes == {<<200>>, <<410>>, <<403>>, <<429>>, <<503>>, <<400>>, <<>>}

\* a mapping that takes 403 for a rate limit as well
status_to_push_result_403(status) ==
  CASE status = 200 -> "Success"
    [] status = 410 -> "Gone"
    [] status \in {403, 429, 503} -> "Retry"
    [] OTHER -> "OtherError"

\* a mapping that takes 429 alone for the provider's rate limit
status_to_push_result_429(status) ==
  CASE status = 200 -> "Success"
    [] status = 410 -> "Gone"
    [] status = 403 -> "AuthError"
    [] status = 429 -> "Retry"
    [] OTHER -> "OtherError"

\* status_to_push_result
status_to_push_result(status) ==
  CASE status = 200 -> "Success"
    [] status = 410 -> "Gone"
    [] status = 403 -> "AuthError"
    [] status \in {429, 503} -> "Retry"
    [] OTHER -> "OtherError"

\* the result of send_push once a provider token is at hand
SendResult(outcome) ==
  IF outcome = <<>> THEN "OtherError" ELSE status_to_push_result(outcome[1])

\* get_or_refresh_token run without interruption at time t: the cache it leaves
TokenCacheAfter(cache, t, sig) ==
  IF cache # <<>> /\ t - cache[1].issued_at < TOKEN_TTL THEN cache
  ELSE <<[issued_at |-> t, sig |-> sig]>>

\* upsert_push_token: a new token gets a new row, a known one keeps its row
upsert_push_token(tbl, tok) == IF tok \in Range(tbl) THEN tbl ELSE Append(tbl, tok)

\* a delete that removes no row
delete_push_token_none(tbl, tok) == tbl

\* delete_push_token: DELETE FROM push_tokens WHERE push_token = ?1
delete_push_token(tbl, tok) == SelectSeq(tbl, LAMBDA x : x # tok)

\* push_register_handler of an authorized request
RegisterPushToken(tok, dbOk) ==
  /\ IF tok = ""
       THEN /\ hresp' = [route |-> "push_register", res |-> "BadRequest"]
            /\ push_tokens' = push_tokens
     ELSE IF ~dbOk
       THEN /\ hresp' = [route |-> "push_register", res |-> "Internal"]
            /\ push_tokens' = push_tokens
     ELSE /\ hresp' = [route |-> "push_register", res |-> "Ok"]
          /\ push_tokens' = upsert_push_token(push_tokens, tok)
  /\ UNCHANGED <<push_tasks, sends, cached_token, minted, tcall>>

\* events_handler with an APNs client configured: after the set_metadata of
\* the notification version the push task is spawned
SpawnPush(h) ==
  /\ push_tasks' = [b \in DOMAIN push_tasks \cup {hreq[h].event_id} |->
                       IF b = hreq[h].event_id THEN [pc |-> "list", tokens |-> <<>>, i |-> 0]
                       ELSE push_tasks[b]]
  /\ UNCHANGED <<push_tokens, sends, cached_token, minted, tcall>>

\* the push task: push_pool.get() and list_push_tokens; a failure ends the task
PushList(b, ok) ==
  /\ b \in DOMAIN push_tasks /\ push_tasks[b].pc = "list"
  /\ push_tasks' = [push_tasks EXCEPT ![b] =
        IF ok /\ push_tokens # <<>>
          THEN [pc |-> "send", tokens |-> push_tokens, i |-> 1]
          ELSE [pc |-> "done", tokens |-> IF ok THEN push_tokens ELSE <<>>, i |-> 0]]
  /\ UNCHANGED <<push_tokens, sends, cached_token, minted, tcall>>

\* one turn of the loop of the push task: send_push to the next token (which
\* takes the provider token from get_or_refresh_token) and the match on its
\* result; Gone deletes the token (a failure of the delete is dropped), Retry
\* leaves the loop
PushSend(b, outcome, dbOk) ==
  LET t == push_tasks[b]
      tok == t.tokens[t.i]
      result == SendResult(outcome)
      cache == TokenCacheAfter(cached_token, UtcNow, minted + 1)
  IN  /\ b \in DOMAIN push_tasks /\ push_tasks[b].pc = "send"
      /\ cached_token' = cache
      /\ minted' = IF cache = cached_token THEN minted ELSE minted + 1
      /\ sends' = Append(sends, [batch |-> b, token |-> tok, outcome |-> outcome])
      /\ push_tokens' = IF result = "Gone" /\ dbOk THEN delete_push_token(push_tokens, tok)
                        ELSE push_tokens
      /\ push_tasks' = [push_tasks EXCEPT ![b] =
            IF result = "Retry" \/ t.i = Len(t.tokens)
              THEN [t EXCEPT !.pc = "done"]
              ELSE [t EXCEPT !.i = t.i + 1]]
      /\ UNCHANGED tcall

\* a caller slot of get_or_refresh_token with no call in flight
TIdle == [pc |-> "idle", now |-> 0, ret |-> <<>>]

\* the callers of get_or_refresh_token
TSlots == {"c1", "c2"}

\* let now = SystemTime::now() ... as_secs()
TokenStart(c) ==
  /\ tcall[c].pc = "idle"
  /\ tcall' = [tcall EXCEPT ![c] = [pc |-> "check", now |-> UtcNow, ret |-> <<>>]]
  /\ UNCHANGED <<push_tokens, push_tasks, sends, cached_token, minted>>

\* the block under the read lock: the cached token is returned when
\* now - issued_at < 3000. The subtraction is on u64: with now < issued_at it
\* panics where overflow is checked and wraps to a large number where it is not
TokenCheck(c, wraps) ==
  LET n == tcall[c].now
      under == cached_token # <<>> /\ n < cached_token[1].issued_at
      hit == cached_token # <<>> /\ ~under /\ n - cached_token[1].issued_at < TOKEN_TTL
  IN  /\ tcall[c].pc = "check"
      /\ tcall' = [tcall EXCEPT ![c] =
            IF hit THEN [pc |-> "idle", now |-> n, ret |-> cached_token]
            ELSE IF under /\ ~wraps THEN [pc |-> "idle", now |-> n, ret |-> <<>>]
            ELSE [pc |-> "gen", now |-> n, ret |-> <<>>]]
      /\ UNCHANGED <<push_tokens, push_tasks, sends, cached_token, minted>>

\* encode(..) with iat = now, the block under the write lock, Ok(token)
TokenWrite(c) ==
  LET token == [issued_at |-> tcall[c].now, sig |-> minted + 1]
  IN  /\ tcall[c].pc = "gen"
      /\ cached_token' = <<token>>
      /\ minted' = minted + 1
      /\ tcall' = [tcall EXCEPT ![c] = [pc |-> "idle", now |-> tcall[c].now, ret |-> <<token>>]]
      /\ UNCHANGED <<push_tokens, push_tasks, sends>>

PushInit ==
  /\ push_tokens = <<>>
  /\ push_tasks = <<>>
  /\ sends = <<>>
  /\ cached_token = <<>>
  /\ minted = 0
  /\ tcall = [c \in TSlots |-> TIdle]

\* ------------------------------------------------------------ notif_dedup.rs

HIGH_PRIORITY_TYPES == {"permission_prompt"}

\* guard.retain(|_, last_sent| now.duration_since(*last_sent) < NOTIF_COOLDOWN_WINDOW)
RetainCooldown(map, t) ==
  [k \in {x \in DOMAIN map : t - map[x] < NOTIF_COOLDOWN_WINDOW} |-> map[k]]

\* a check that stamps the bucket on a suppressed call as well
should_send_notification_restamp(map, session_id, notif_type, t) ==
  IF notif_type \in HIGH_PRIORITY_TYPES THEN [ret |-> TRUE, map |-> map]
  ELSE LET kept == RetainCooldown(map, t)
           key == <<session_id, notif_type>>
           stamped == [k \in DOMAIN kept \cup {key} |-> IF k = key THEN t ELSE kept[k]]
       IN  [ret |-> key \notin DOMAIN kept, map |-> stamped]

\* a check that evicts nothing
should_send_notification_keep(map, session_id, notif_type, t) ==
  IF notif_type \in HIGH_PRIORITY_TYPES THEN [ret |-> TRUE, map |-> map]
  ELSE LET key == <<session_id, notif_type>>
       IN  IF key \in DOMAIN map /\ t - map[key] < NOTIF_COOLDOWN_WINDOW
             THEN [ret |-> FALSE, map |-> map]
             ELSE [ret |-> TRUE,
                   map |-> [k \in DOMAIN map \cup {key} |-> IF k = key THEN t ELSE map[k]]]

\* should_send_notification at time t: what it returns and the map it leaves
should_send_notification(map, session_id, notif_type, t) ==
  IF notif_type \in HIGH_PRIORITY_TYPES THEN [ret |-> TRUE, map |-> map]
  ELSE LET kept == RetainCooldown(map, t)
           key == <<session_id, notif_type>>
       IN  IF key \in DOMAIN kept /\ t - kept[key] < NOTIF_COOLDOWN_WINDOW
             THEN [ret |-> FALSE, map |-> kept]
             ELSE [ret |-> TRUE,
                   map |-> [k \in DOMAIN kept \cup {key} |-> IF k = key THEN t ELSE kept[k]]]

NoCall == [session_id |-> "", notif_type |-> "", at |-> 0, ret |-> FALSE, evicted |-> {}]

\* one call of should_send_notification, under the lock of the map
DedupCall(session_id, notif_type) ==
  LET r == should_send_notification(notif_cooldown, session_id, notif_type, now)
  IN  /\ notif_cooldown' = r.map
      /\ dedup_last' = [session_id |-> session_id, notif_type |-> notif_type, at |-> now,
                        ret |-> r.ret, evicted |-> DOMAIN notif_cooldown \ DOMAIN r.map]

DedupInit ==
  /\ notif_cooldown = <<>>
  /\ dedup_last = NoCall

\* ------------------------------------------ the guards of the three maps

LockNames == {"auth_failures", "key_rate_limits", "notif_cooldown"}

\* the handler that runs should_send_notification
DedupThread == "n1"

Threads == Slots \cup {DedupThread}

HeldBy(t) == {l \in LockNames : mutex[l] = t}

\* map.lock(): the guard is taken when the Mutex is free
Lock(m, l, t) == [m EXCEPT ![l] = t]

\* a guard that outlives the function that took it
UnlockLate(m, l) == m

\* drop(guard), and the end of the scope of a guard
Unlock(m, l) == [m EXCEPT ![l] = ""]

\* the Mutex the next statement of request s locks, if any: check_rate_limit
\* of a request about to start, record_auth_failure, check_key_rate_limit
NextLockOf(s) ==
  CASE req[s].pc = "idle"  -> <<"auth_failures">>
    [] req[s].pc = "fail"  -> <<"auth_failures">>
    [] req[s].pc = "quota" -> <<"key_rate_limits">>
    [] OTHER -> <<>>

\* request s takes the guard of the map its next statement works on
AcquireGuard(s) ==
  /\ NextLockOf(s) # <<>>
  /\ mutex[NextLockOf(s)[1]] = ""
  /\ HeldBy(s) = {}
  /\ mutex' = Lock(mutex, NextLockOf(s)[1], s)
  /\ UNCHANGED <<authVars, pooled>>

\* check_rate_limit under its guard, which it drops before it returns
GuardedBegin(s, h, cap) ==
  /\ mutex["auth_failures"] = s
  /\ BeginAuth(s, h, cap)
  /\ mutex' = Unlock(mutex, "auth_failures")
  /\ pooled' = pooled

\* db_pool.get() and find_api_key_by_key: the connection lives to the end of
\* resolve_auth
GuardedLookup(s, dbOk) ==
  /\ Lookup(s, dbOk)
  /\ pooled' = IF req'[s].pc = "idle" THEN pooled \ {s} ELSE pooled \cup {s}
  /\ mutex' = mutex

\* record_auth_failure under its guard; resolve_auth returns and drops the
\* connection if it has one
GuardedRecordFailure(s) ==
  /\ mutex["auth_failures"] = s
  /\ RecordFailure(s)
  /\ mutex' = Unlock(mutex, "auth_failures")
  /\ pooled' = pooled \ {s}

\* check_key_rate_limit under its guard, with the connection of the lookup
GuardedQuota(s) ==
  /\ mutex["key_rate_limits"] = s
  /\ Quota(s)
  /\ mutex' = Unlock(mutex, "key_rate_limits")
  /\ pooled' = IF req'[s].pc = "idle" THEN pooled \ {s} ELSE pooled

\* update_api_key_last_used, then resolve_auth returns and drops the connection
GuardedTouch(s, dbOk) ==
  /\ Touch(s, dbOk)
  /\ pooled' = pooled \ {s}
  /\ mutex' = mutex

\* should_send_notification for a low-priority type takes the guard
AcquireDedupGuard ==
  /\ mutex["notif_cooldown"] = ""
  /\ mutex' = Lock(mutex, "notif_cooldown", DedupThread)
  /\ UNCHANGED <<dedupVars, pooled>>

\* should_send_notification: a high-priority type returns before the lock, the
\* others run under the guard, dropped at the return
GuardedDedupCall(session_id, notif_type) ==
  /\ IF notif_type \in HIGH_PRIORITY_TYPES
       THEN mutex["notif_cooldown"] # DedupThread /\ mutex' = mutex
       ELSE mutex["notif_cooldown"] = DedupThread /\ mutex' = Unlock(mutex, "notif_cooldown")
  /\ DedupCall(session_id, notif_type)
  /\ pooled' = pooled

LockInit ==
  /\ mutex = [l \in LockNames |-> ""]
  /\ pooled = {}

\* ------------------------------------------- db/pool.rs and the transaction

\* the connections of the pool that the runs of events_handler are given
PoolConns == {"c1", "c2"}

\* the connections no run holds: r2d2 hands out any of them
IdleConns == PoolConns \ {conn_of[h][1] : h \in {x \in HSlots : conn_of[x] # <<>>}}

\* the PooledConnection is dropped when the handler returns: the connection
\* goes back to the pool as it is
PutBack(h) ==
  conn_of' = IF hreq'[h].pc = "idle" THEN [conn_of EXCEPT ![h] = <<>>] ELSE conn_of

\* whether the connection is inside a transaction after the handler's BEGIN ..
\* COMMIT: a failing BEGIN leaves it as it was; COMMIT and the ROLLBACK of the
\* Err arm end the transaction; a failing set_metadata returns through the ?
\* with the transaction open, and so does a failing COMMIT unless SQLite rolled
\* the transaction back on the error (rolled)
TxnLeftOpen(was, out, rolled) ==
  CASE out = "begin" -> was
    [] out = "late"  -> ~rolled
    [] OTHER -> FALSE

\* events_handler up to db_pool.get(), which hands out connection c
PooledBegin(h, p, c) ==
  /\ c \in IdleConns
  /\ BeginEvent(h, p, TRUE)
  /\ conn_of' = IF hreq'[h].pc = "txn" THEN [conn_of EXCEPT ![h] = <<c>>] ELSE conn_of
  /\ conn_txn' = conn_txn

\* BEGIN .. COMMIT on the connection of the run: BEGIN fails on a connection
\* that is inside a transaction ("cannot start a transaction within a
\* transaction")
PooledTxn(h, out, rolled) ==
  /\ conn_of[h] # <<>>
  /\ conn_txn[conn_of[h][1]] => out = "begin"
  /\ Txn(h, out)
  /\ conn_txn' = [conn_txn EXCEPT ![conn_of[h][1]] = TxnLeftOpen(@, out, rolled)]
  /\ PutBack(h)

\* the statements after the transaction: none begins or ends one
PooledRest(h) ==
  /\ \/ ReadTitle(h, TRUE)
     \/ InsertNotification(h, TRUE)
     \/ BumpNotificationVersion(h)
     \/ PersistNotificationVersion(h, TRUE)
     \/ GateLoad(h)
     \/ GateStore(h)
  /\ conn_txn' = conn_txn
  /\ PutBack(h)

PoolInit ==
  /\ conn_txn = [c \in PoolConns |-> FALSE]
  /\ conn_of = [h \in HSlots |-> <<>>]

\* ------------------------------ handlers/notifications.rs under cursor polling

\* GET /api/v1/notifications?after=<cursor>&limit=<limit>, the cursor being the
\* created_at of the last row of the last response that had rows; the client
\* keeps the ids of the rows it is sent
Poll(limit) ==
  LET rows == list_notifications(notifications, poll.after, ListLimit(<<limit>>))
  IN  /\ ListNotifications(poll.after, <<limit>>, TRUE)
      /\ poll' = [after |-> IF rows = <<>> THEN poll.after
                            ELSE <<rows[Len(rows)].created_at>>,
                  got |-> poll.got \o [i \in 1..Len(rows) |-> rows[i].id]]

PollInit == poll = [after |-> <<>>, got |-> <<>>]

RestInit == DedupInit /\ LockInit /\ PoolInit /\ PollInit

\* --------------------------------------------------- hook: main.rs, sender.rs

\* no hook process running; status is the exit status of the last one
HookIdle == [pc |-> "exited", status |-> 0, runs |-> 0]

\* what the request of send_event comes to: the payload cannot be
\* serialized, a transport error or the 3 s timeout, or a response
SendOutcomes ==
  {[kind |-> "serialize", status |-> 0], [kind |-> "network", status |-> 0]}
    \cup {[kind |-> "response", status |-> c] : c \in {200, 201, 400, 401, 403, 429, 500}}

\* send_event: Ok(()), here "", for a 200 only; otherwise the error
send_event(outcome) ==
  IF outcome.kind = "serialize" THEN "Serialize"
  ELSE IF outcome.kind = "network" THEN "Network"
  ELSE IF outcome.status = 200 THEN ""
  ELSE "ServerError"

\* main with the send subcommand: a process starts
HookStart ==
  /\ hook.pc = "exited"
  /\ hook.runs < MaxHookRuns
  /\ hook' = [pc |-> "config", status |-> 0, runs |-> hook.runs + 1]
  /\ UNCHANGED hook_log

\* cmd_send: the configuration, loaded or not
HookConfig(ok) ==
  /\ hook.pc = "config"
  /\ IF ok THEN hook' = [hook EXCEPT !.pc = "event"] /\ UNCHANGED hook_log
           ELSE /\ hook' = [hook EXCEPT !.pc = "exited", !.status = 0]
                /\ hook_log' = Append(hook_log, <<"Config error">>)

\* cmd_send: the event read from stdin, parsed or not
HookEvent(ok) ==
  /\ hook.pc = "event"
  /\ IF ok THEN hook' = [hook EXCEPT !.pc = "send"] /\ UNCHANGED hook_log
           ELSE /\ hook' = [hook EXCEPT !.pc = "exited", !.status = 0]
                /\ hook_log' = Append(hook_log, <<"Event parse error">>)

\* a send command that exits with status 1 when the event was not delivered
HookSendFatal(outcome) ==
  /\ hook.pc = "send"
  /\ hook' = [hook EXCEPT !.pc = "exited",
                          !.status = IF send_event(outcome) = "" THEN 0 ELSE 1]
  /\ hook_log' = Append(hook_log, IF send_event(outcome) = ""
                                    THEN <<"Event sent successfully">>
                                    ELSE <<"Send error", send_event(outcome)>>)

\* cmd_send: send_event, its result logged, and the return
HookSend(outcome) ==
  /\ hook.pc = "send"
  /\ hook' = [hook EXCEPT !.pc = "exited", !.status = 0]
  /\ hook_log' = Append(hook_log, IF send_event(outcome) = ""
                                    THEN <<"Event sent successfully">>
                                    ELSE <<"Send error", send_event(outcome)>>)

ClientInit ==
  /\ hook = HookIdle
  /\ hook_log = <<>>

\* ------------------------------------------------------------ specifications

\* the slots are interchangeable: a request takes the first idle one
FreeSlot(s) == req[s].pc = "idle" /\ (s = "s2" => req["s1"].pc # "idle")

\* the bound on the per-key counters
WithinBudget(h, max) ==
  ExtractBearerToken(h) # <<>> => CountOfToken(ExtractBearerToken(h)[1]) < max

\* the bound on the failures of one origin
FewFailures(h, max) ==
  ExtractClientIp(h) \in DOMAIN auth_failures => auth_failures[ExtractClientIp(h)].count < max

vars == <<now, ticks, authVars, ingestVars, pushVars, cleanupVars, clientVars, restVars>>

Init ==
  /\ now = 0
  /\ ticks = 0
  /\ AuthInit
  /\ IngestInit
  /\ PushInit
  /\ CleanupInit
  /\ ClientInit
  /\ RestInit

\* the auth layer under every kind of credential, route and peer
NextAuth ==
  \/ /\ \E h \in HeadersAuth, cap \in Scopes :
          /\ WithinBudget(h, MaxKeyCountAuth) /\ FewFailures(h, MaxFailuresAuth)
          /\ BeginAuth("s1", h, cap)
     /\ UNCHANGED <<now, ticks, ingestVars, pushVars, cleanupVars, clientVars, restVars>>
  \/ /\ \E h \in HeadersAdmin, peer \in Peers :
          FewFailures(h, MaxFailuresAuth) /\ BeginAdmin("s1", h, peer)
     /\ UNCHANGED <<now, ticks, ingestVars, pushVars, cleanupVars, clientVars, restVars>>
  \/ RecordFailure("s1") /\ UNCHANGED <<now, ticks, ingestVars, pushVars, cleanupVars, clientVars, restVars>>
  \/ (\E dbOk \in BOOLEAN : Lookup("s1", dbOk)) /\ UNCHANGED <<now, ticks, ingestVars, pushVars, cleanupVars, clientVars, restVars>>
  \/ Quota("s1") /\ UNCHANGED <<now, ticks, ingestVars, pushVars, cleanupVars, clientVars, restVars>>
  \/ (\E dbOk \in BOOLEAN : Touch("s1", dbOk)) /\ UNCHANGED <<now, ticks, ingestVars, pushVars, cleanupVars, clientVars, restVars>>

SpecAuth == Init /\ [][NextAuth]_vars

\* the IP lockout over time
NextLockout ==
  \/ /\ \E h \in HeadersLockout :
          /\ WithinBudget(h, MaxKeyCountAuth)
          /\ ExtractClientIp(h) = FallbackIp => FewFailures(h, MaxFailuresAuth)
          /\ BeginAuth("s1", h, "Write")
     /\ UNCHANGED <<now, ticks, ingestVars, pushVars, cleanupVars, clientVars, restVars>>
  \/ /\ \E h \in HeadersLockout, peer \in Peers :
          /\ ExtractClientIp(h) = FallbackIp => FewFailures(h, MaxFailuresAuth)
          /\ BeginAdmin("s1", h, peer)
     /\ UNCHANGED <<now, ticks, ingestVars, pushVars, cleanupVars, clientVars, restVars>>
  \/ RecordFailure("s1") /\ UNCHANGED <<now, ticks, ingestVars, pushVars, cleanupVars, clientVars, restVars>>
  \/ Lookup("s1", TRUE) /\ UNCHANGED <<now, ticks, ingestVars, pushVars, cleanupVars, clientVars, restVars>>
  \/ Quota("s1") /\ UNCHANGED <<now, ticks, ingestVars, pushVars, cleanupVars, clientVars, restVars>>
  \/ Touch("s1", TRUE) /\ UNCHANGED <<now, ticks, ingestVars, pushVars, cleanupVars, clientVars, restVars>>
  \/ Tick(LockoutPattern) /\ UNCHANGED <<authVars, ingestVars, pushVars, cleanupVars, clientVars, restVars>>

SpecLockout == Init /\ [][NextLockout]_vars

\* the per-key quota over time, under concurrent requests
NextQuota ==
  \/ /\ \E s \in Slots, h \in HeadersQuota, cap \in Scopes :
          FreeSlot(s) /\ WithinBudget(h, MaxKeyCount) /\ BeginAuth(s, h, cap)
     /\ UNCHANGED <<now, ticks, ingestVars, pushVars, cleanupVars, clientVars, restVars>>
  \/ (\E s \in Slots : Lookup(s, TRUE)) /\ UNCHANGED <<now, ticks, ingestVars, pushVars, cleanupVars, clientVars, restVars>>
  \/ (\E s \in Slots : Quota(s)) /\ UNCHANGED <<now, ticks, ingestVars, pushVars, cleanupVars, clientVars, restVars>>
  \/ (\E s \in Slots : Touch(s, TRUE)) /\ UNCHANGED <<now, ticks, ingestVars, pushVars, cleanupVars, clientVars, restVars>>
  \/ Tick(QuotaPattern) /\ UNCHANGED <<authVars, ingestVars, pushVars, cleanupVars, clientVars, restVars>>

SpecQuota == Init /\ [][NextQuota]_vars

\* the other variables of the ingestion layer, for the steps that write hresp only
ingestVarsButHresp ==
  <<devices, sessions, events, notifications, metadata, version, notification_version,
    last_cleanup, cleanup_tasks, insert_failed, hreq>>

\* the key store over time: keys are used, run into their quota, and are deleted
NextKeys ==
  \/ /\ \E h \in HeadersKeys, cap \in Scopes :
          /\ WithinBudget(h, MaxKeyCountKeys) /\ FewFailures(h, MaxFailuresAuth)
          /\ BeginAuth("s1", h, cap)
     /\ UNCHANGED <<now, ticks, ingestVars, pushVars, cleanupVars, clientVars, restVars>>
  \/ /\ \E h \in {k \in HeadersKeys : k.auth[2] = "tok_w"}, peer \in {"loopback", "remote"} :
          FewFailures(h, MaxFailuresAuth) /\ BeginAdmin("s1", h, peer)
     /\ UNCHANGED <<now, ticks, ingestVars, pushVars, cleanupVars, clientVars, restVars>>
  \/ RecordFailure("s1") /\ UNCHANGED <<now, ticks, ingestVars, pushVars, cleanupVars, clientVars, restVars>>
  \/ Lookup("s1", TRUE) /\ UNCHANGED <<now, ticks, ingestVars, pushVars, cleanupVars, clientVars, restVars>>
  \/ Quota("s1") /\ UNCHANGED <<now, ticks, ingestVars, pushVars, cleanupVars, clientVars, restVars>>
  \/ Touch("s1", TRUE) /\ UNCHANGED <<now, ticks, ingestVars, pushVars, cleanupVars, clientVars, restVars>>
  \/ (\E id \in {"krw", "kw", "no_such_id"}, dbOk \in BOOLEAN : DeleteApiKey(id, dbOk))
        /\ UNCHANGED <<now, ticks, ingestVarsButHresp, pushVars, cleanupVars, clientVars, restVars>>
  \/ Tick(QuotaPattern) /\ UNCHANGED <<authVars, ingestVars, pushVars, cleanupVars, clientVars, restVars>>

SpecKeys == Init /\ [][NextKeys]_vars

\* the transactions a behaviour has run or is about to run
EventsTaken == version + Cardinality({h \in HSlots : hreq[h].pc = "txn"})

\* event ingestion with its notification pipeline, one request at a time, and
\* acknowledgement; the statements that may fail are those of the transaction
\* and the insert of the notification
NextIngest ==
  \/ /\ \E p \in EventInputs :
          EventsTaken < MaxEvents /\ BeginEvent("h1", p, TRUE)
     /\ UNCHANGED <<now, ticks, authVars, pushVars, cleanupVars, clientVars, restVars>>
  \/ (\E out \in {"ok", "begin", "late"} \cup Range(TxnSteps) : Txn("h1", out))
        /\ UNCHANGED <<now, ticks, authVars, pushVars, cleanupVars, clientVars, restVars>>
  \/ ReadTitle("h1", TRUE) /\ UNCHANGED <<now, ticks, authVars, pushVars, cleanupVars, clientVars, restVars>>
  \/ (\E dbOk \in BOOLEAN : InsertNotification("h1", dbOk))
        /\ UNCHANGED <<now, ticks, authVars, pushVars, cleanupVars, clientVars, restVars>>
  \/ BumpNotificationVersion("h1") /\ UNCHANGED <<now, ticks, authVars, pushVars, cleanupVars, clientVars, restVars>>
  \/ PersistNotificationVersion("h1", TRUE) /\ UNCHANGED <<now, ticks, authVars, pushVars, cleanupVars, clientVars, restVars>>
  \/ GateLoad("h1") /\ UNCHANGED <<now, ticks, authVars, pushVars, cleanupVars, clientVars, restVars>>
  \/ GateStore("h1") /\ UNCHANGED <<now, ticks, authVars, pushVars, cleanupVars, clientVars, restVars>>
  \/ CleanupTask(TRUE) /\ UNCHANGED <<now, ticks, authVars, pushVars, cleanupVars, clientVars, restVars>>
  \/ (\E ids \in {{}} \cup {{i} : i \in 1..MaxEvents} : Acknowledge(ids, TRUE))
        /\ UNCHANGED <<now, ticks, authVars, pushVars, cleanupVars, clientVars, restVars>>
  \/ Tick(CooldownPattern) /\ UNCHANGED <<authVars, ingestVars, pushVars, cleanupVars, clientVars, restVars>>

SpecIngest == Init /\ [][NextIngest]_vars

\* the payload of SpecRace: a Stop of session S1, which makes a notification
RaceInputs == {Payload("S1", "Stop", <<>>, <<>>)}

\* two events_handler runs side by side, every statement succeeding
NextRace ==
  \/ /\ \E h \in HSlots, p \in RaceInputs :
          FreeHandler(h) /\ EventsTaken < MaxEvents /\ BeginEvent(h, p, TRUE)
     /\ UNCHANGED <<now, ticks, authVars, pushVars, cleanupVars, clientVars, restVars>>
  \/ (\E h \in HSlots : Txn(h, "ok")) /\ UNCHANGED <<now, ticks, authVars, pushVars, cleanupVars, clientVars, restVars>>
  \/ (\E h \in HSlots : ReadTitle(h, TRUE)) /\ UNCHANGED <<now, ticks, authVars, pushVars, cleanupVars, clientVars, restVars>>
  \/ (\E h \in HSlots : InsertNotification(h, TRUE)) /\ UNCHANGED <<now, ticks, authVars, pushVars, cleanupVars, clientVars, restVars>>
  \/ (\E h \in HSlots : BumpNotificationVersion(h)) /\ UNCHANGED <<now, ticks, authVars, pushVars, cleanupVars, clientVars, restVars>>
  \/ (\E h \in HSlots : PersistNotificationVersion(h, TRUE))
        /\ UNCHANGED <<now, ticks, authVars, pushVars, cleanupVars, clientVars, restVars>>
  \/ (\E h \in HSlots : GateLoad(h)) /\ UNCHANGED <<now, ticks, authVars, pushVars, cleanupVars, clientVars, restVars>>
  \/ (\E h \in HSlots : GateStore(h)) /\ UNCHANGED <<now, ticks, authVars, pushVars, cleanupVars, clientVars, restVars>>
  \/ CleanupTask(TRUE) /\ UNCHANGED <<now, ticks, authVars, pushVars, cleanupVars, clientVars, restVars>>
  \/ Tick(CooldownPattern) /\ UNCHANGED <<authVars, ingestVars, pushVars, cleanupVars, clientVars, restVars>>

SpecRace == Init /\ [][NextRace]_vars

\* the payloads of SpecSessions: for session S1 of device d1 two prompts with
\* different texts, a UserPromptSubmit without a prompt, a Stop, a SessionEnd, a
\* Notification of a sub-type that derives no status and an event type that
\* derives none; for session S2 of device d2 an idle Notification and an event
\* type that derives no status
SessionInputs ==
  { Payload("S1", "UserPromptSubmit", <<>>, << <<1, 1>> >>),
    Payload("S1", "UserPromptSubmit", <<>>, << <<2>> >>),
    Payload("S1", "UserPromptSubmit", <<>>, <<>>),
    Payload("S1", "Stop", <<>>, <<>>),
    Payload("S1", "SessionEnd", <<>>, <<>>),
    Payload("S1", "Notification", <<"auth_success">>, <<>>),
    Payload("S1", "PreToolUse", <<>>, <<>>),
    [Payload("S2", "Notification", <<"idle_prompt">>, <<>>) EXCEPT !.device_id = "d2"],
    [Payload("S2", "PreToolUse", <<>>, <<>>) EXCEPT !.device_id = "d2"] }

\* events_handler runs one after the other over SessionInputs; a transaction
\* commits or fails at its last statement
NextSessions ==
  \/ /\ \E p \in SessionInputs :
          /\ version + Cardinality({h \in HSlots : hreq[h].pc = "txn"}) < MaxSessionEvents
          /\ BeginEvent("h1", p, TRUE)
     /\ UNCHANGED <<now, ticks, authVars, pushVars, cleanupVars, clientVars, restVars>>
  \/ (\E out \in {"ok", "event"} : Txn("h1", out)) /\ UNCHANGED <<now, ticks, authVars, pushVars, cleanupVars, clientVars, restVars>>
  \/ ReadTitle("h1", TRUE) /\ UNCHANGED <<now, ticks, authVars, pushVars, cleanupVars, clientVars, restVars>>
  \/ InsertNotification("h1", TRUE) /\ UNCHANGED <<now, ticks, authVars, pushVars, cleanupVars, clientVars, restVars>>
  \/ BumpNotificationVersion("h1") /\ UNCHANGED <<now, ticks, authVars, pushVars, cleanupVars, clientVars, restVars>>
  \/ PersistNotificationVersion("h1", TRUE) /\ UNCHANGED <<now, ticks, authVars, pushVars, cleanupVars, clientVars, restVars>>
  \/ GateLoad("h1") /\ UNCHANGED <<now, ticks, authVars, pushVars, cleanupVars, clientVars, restVars>>
  \/ GateStore("h1") /\ UNCHANGED <<now, ticks, authVars, pushVars, cleanupVars, clientVars, restVars>>
  \/ CleanupTask(TRUE) /\ UNCHANGED <<now, ticks, authVars, pushVars, cleanupVars, clientVars, restVars>>
  \/ Tick(CooldownPattern) /\ UNCHANGED <<authVars, ingestVars, pushVars, cleanupVars, clientVars, restVars>>

SpecSessions == Init /\ [][NextSessions]_vars

\* set_metadata of the notification version, then the spawn of the push task
PersistAndSpawn(h, dbOk) == PersistNotificationVersion(h, dbOk) /\ SpawnPush(h)

\* events_handler with an APNs client configured, one run at a time, each for
\* a Stop of session S1, every statement of the handler succeeding; the steps
\* of the push tasks and the provider may fail in every way, the delete of a
\* token succeeds; clients register tokens
NextPush ==
  \/ /\ \E p \in RaceInputs : EventsTaken < MaxEvents /\ BeginEvent("h1", p, TRUE)
     /\ UNCHANGED <<now, ticks, authVars, pushVars, cleanupVars, clientVars, restVars>>
  \/ Txn("h1", "ok") /\ UNCHANGED <<now, ticks, authVars, pushVars, cleanupVars, clientVars, restVars>>
  \/ ReadTitle("h1", TRUE) /\ UNCHANGED <<now, ticks, authVars, pushVars, cleanupVars, clientVars, restVars>>
  \/ InsertNotification("h1", TRUE) /\ UNCHANGED <<now, ticks, authVars, pushVars, cleanupVars, clientVars, restVars>>
  \/ BumpNotificationVersion("h1") /\ UNCHANGED <<now, ticks, authVars, pushVars, cleanupVars, clientVars, restVars>>
  \/ PersistAndSpawn("h1", TRUE) /\ UNCHANGED <<now, ticks, authVars, cleanupVars, clientVars, restVars>>
  \/ GateLoad("h1") /\ UNCHANGED <<now, ticks, authVars, pushVars, cleanupVars, clientVars, restVars>>
  \/ GateStore("h1") /\ UNCHANGED <<now, ticks, authVars, pushVars, cleanupVars, clientVars, restVars>>
  \/ CleanupTask(TRUE) /\ UNCHANGED <<now, ticks, authVars, pushVars, cleanupVars, clientVars, restVars>>
  \/ (\E tok \in PushTokenNames : RegisterPushToken(tok, TRUE))
        /\ UNCHANGED <<now, ticks, authVars, ingestVarsButHresp, cleanupVars, clientVars, restVars>>
  \/ (\E b \in 1..MaxEvents, ok \in BOOLEAN : PushList(b, ok))
        /\ UNCHANGED <<now, ticks, authVars, ingestVars, cleanupVars, clientVars, restVars>>
  \/ (\E b \in 1..MaxEvents, outcome \in ProviderOutcomes : PushSend(b, outcome, TRUE))
        /\ UNCHANGED <<now, ticks, authVars, ingestVars, cleanupVars, clientVars, restVars>>

SpecPush == Init /\ [][NextPush]_vars

\* events_handler with an APNs client configured, one run at a time, each for
\* a Stop of session S1, where every statement after the commit, the steps of
\* the push task, the provider and the cleanup may fail; one token is registered
NextDeliver ==
  \/ /\ \E p \in RaceInputs : EventsTaken < MaxEvents /\ BeginEvent("h1", p, TRUE)
     /\ UNCHANGED <<now, ticks, authVars, pushVars, cleanupVars, clientVars, restVars>>
  \/ (\E out \in {"ok", "event"} : Txn("h1", out))
        /\ UNCHANGED <<now, ticks, authVars, pushVars, cleanupVars, clientVars, restVars>>
  \/ (\E dbOk \in BOOLEAN : ReadTitle("h1", dbOk))
        /\ UNCHANGED <<now, ticks, authVars, pushVars, cleanupVars, clientVars, restVars>>
  \/ (\E dbOk \in BOOLEAN : InsertNotification("h1", dbOk))
        /\ UNCHANGED <<now, ticks, authVars, pushVars, cleanupVars, clientVars, restVars>>
  \/ BumpNotificationVersion("h1") /\ UNCHANGED <<now, ticks, authVars, pushVars, cleanupVars, clientVars, restVars>>
  \/ (\E dbOk \in BOOLEAN : PersistAndSpawn("h1", dbOk)) /\ UNCHANGED <<now, ticks, authVars, cleanupVars, clientVars, restVars>>
  \/ GateLoad("h1") /\ UNCHANGED <<now, ticks, authVars, pushVars, cleanupVars, clientVars, restVars>>
  \/ GateStore("h1") /\ UNCHANGED <<now, ticks, authVars, pushVars, cleanupVars, clientVars, restVars>>
  \/ (\E poolOk \in BOOLEAN : CleanupTask(poolOk))
        /\ UNCHANGED <<now, ticks, authVars, pushVars, cleanupVars, clientVars, restVars>>
  \/ (push_tokens = <<>> /\ RegisterPushToken("tok-1", TRUE))
        /\ UNCHANGED <<now, ticks, authVars, ingestVarsButHresp, cleanupVars, clientVars, restVars>>
  \/ (\E b \in 1..MaxEvents, ok \in BOOLEAN : PushList(b, ok))
        /\ UNCHANGED <<now, ticks, authVars, ingestVars, cleanupVars, clientVars, restVars>>
  \/ (\E b \in 1..MaxEvents, outcome \in ProviderOutcomes, dbOk \in BOOLEAN :
          PushSend(b, outcome, dbOk))
        /\ UNCHANGED <<now, ticks, authVars, ingestVars, cleanupVars, clientVars, restVars>>

SpecDeliver == Init /\ [][NextDeliver]_vars

\* the clock of SpecToken: one second short of the lifetime of a token, then
\* the second that completes it
TokenPattern == <<TOKEN_TTL - 1, 1>>

\* get_or_refresh_token called from two tasks while time passes
NextToken ==
  \/ (\E c \in TSlots : TokenStart(c)) /\ UNCHANGED <<now, ticks, authVars, ingestVars, cleanupVars, clientVars, restVars>>
  \/ (\E c \in TSlots, wraps \in BOOLEAN : TokenCheck(c, wraps))
        /\ UNCHANGED <<now, ticks, authVars, ingestVars, cleanupVars, clientVars, restVars>>
  \/ (\E c \in TSlots : TokenWrite(c)) /\ UNCHANGED <<now, ticks, authVars, ingestVars, cleanupVars, clientVars, restVars>>
  \/ Tick(TokenPattern) /\ UNCHANGED <<authVars, ingestVars, pushVars, cleanupVars, clientVars, restVars>>

SpecToken == Init /\ [][NextToken]_vars

\* the windows SpecCleanup is configured with, in days
RetentionDays == {0, 1}

\* the clock of SpecCleanup: an hour, then two days
RetentionPattern == <<3600, 2 * 86400>>

\* the payloads of SpecCleanup: session S1 reported by two devices with an
\* event that makes a notification
CleanupInputs ==
  { Payload("S1", "Stop", <<>>, <<>>),
    [Payload("S1", "Stop", <<>>, <<>>) EXCEPT !.device_id = "d2"] }

\* a server started with any of the windows
InitCleanup ==
  /\ now = 0
  /\ ticks = 0
  /\ AuthInit
  /\ IngestInit
  /\ PushInit
  /\ ClientInit
  /\ RestInit
  /\ cleanup_run = CIdle
  /\ retention \in [events_days : RetentionDays, sessions_days : RetentionDays,
                     devices_days : RetentionDays]

\* ingestion, one request at a time, with the cleanup task running beside it
\* statement by statement, any of its statements failing; a request is
\* answered and a cleanup task ends within the second
NextCleanup ==
  \/ /\ \E p \in CleanupInputs :
          /\ version + Cardinality({h \in HSlots : hreq[h].pc = "txn"}) < MaxSessionEvents
          /\ BeginEvent("h1", p, TRUE)
     /\ UNCHANGED <<now, ticks, authVars, pushVars, cleanupVars, clientVars, restVars>>
  \/ Txn("h1", "ok") /\ UNCHANGED <<now, ticks, authVars, pushVars, cleanupVars, clientVars, restVars>>
  \/ ReadTitle("h1", TRUE) /\ UNCHANGED <<now, ticks, authVars, pushVars, cleanupVars, clientVars, restVars>>
  \/ InsertNotification("h1", TRUE) /\ UNCHANGED <<now, ticks, authVars, pushVars, cleanupVars, clientVars, restVars>>
  \/ BumpNotificationVersion("h1") /\ UNCHANGED <<now, ticks, authVars, pushVars, cleanupVars, clientVars, restVars>>
  \/ PersistNotificationVersion("h1", TRUE)
        /\ UNCHANGED <<now, ticks, authVars, pushVars, cleanupVars, clientVars, restVars>>
  \/ GateLoad("h1") /\ UNCHANGED <<now, ticks, authVars, pushVars, cleanupVars, clientVars, restVars>>
  \/ GateStore("h1") /\ UNCHANGED <<now, ticks, authVars, pushVars, cleanupVars, clientVars, restVars>>
  \/ (\E poolOk \in BOOLEAN : CleanupBegin(poolOk))
        /\ UNCHANGED <<now, ticks, authVars, pushVars, clientVars, restVars>>
  \/ (\E ok \in BOOLEAN : CleanupStep(ok)) /\ UNCHANGED <<now, ticks, authVars, pushVars, clientVars, restVars>>
  \/ /\ hreq["h1"].pc = "idle" /\ cleanup_tasks = 0 /\ cleanup_run.pc = "idle"
     /\ Tick(RetentionPattern)
     /\ UNCHANGED <<authVars, ingestVars, pushVars, cleanupVars, clientVars, restVars>>

SpecCleanup == InitCleanup /\ [][NextCleanup]_vars

\* the event every stored notification of SpecList came from
StoredPayload == Payload("S1", "Stop", <<>>, <<>>)

\* the time the k-th of them was received, before the server was started
StoredAt(k) == BootTime - 1 - MaxRows + k

\* the k-th stored notification, as events_handler made it
StoredNotification(k) ==
  NotificationRow([event_id |-> k, p |-> <<StoredPayload>>, received_at |-> StoredAt(k),
                   notif |-> should_notify("Stop", <<>>, <<>>, <<>>, <<>>)])

\* the sizes of the notifications table SpecList starts with
TableSizes ==
  (0..SmallRows) \cup {DEFAULT_LIST_LIMIT, DEFAULT_LIST_LIMIT + 1, MAX_LIST_LIMIT, MaxRows}

\* the limit parameter: absent, zero, negative, small, and around the cap
LimitInputs ==
  {<<>>, <<0>>, <<0 - 1>>, <<1>>, <<3>>, <<5>>, <<DEFAULT_LIST_LIMIT + 1>>, <<MAX_LIST_LIMIT>>,
   <<MAX_LIST_LIMIT + 1>>}

\* the cursor: absent, the time of the first row
AfterInputs == {<<>>, <<StoredAt(1)>>}

\* a server started on a database that holds n events of one session, each
\* with its notification
InitList ==
  /\ now = 0
  /\ ticks = 0
  /\ AuthInit
  /\ PushInit
  /\ CleanupInit
  /\ ClientInit
  /\ RestInit
  /\ \E n \in TableSizes :
        /\ devices = [d \in {x \in {"d1"} : n > 0} |->
                        [device_name |-> StoredPayload.device_name,
                         platform |-> StoredPayload.platform,
                         first_seen |-> StoredAt(1), last_seen |-> StoredAt(n)]]
        /\ sessions = [d \in {x \in {"S1"} : n > 0} |->
                         [device_id |-> StoredPayload.device_id, started_at |-> StoredAt(1),
                          last_event |-> StoredAt(n), status |-> "waiting_for_input",
                          cwd |-> <<>>, title |-> <<>>]]
        /\ events = [k \in 1..n |-> <<EventRow(StoredPayload, StoredAt(k))>>]
        /\ notifications = {StoredNotification(k) : k \in 1..n}
        /\ version = n
        /\ notification_version = n
        /\ metadata = [data_version |-> IF n = 0 THEN <<>> ELSE <<n>>,
                       notification_version |-> IF n = 0 THEN <<>> ELSE <<n>>]
  /\ last_cleanup = 0
  /\ cleanup_tasks = 0
  /\ insert_failed = {}
  /\ hreq = [h \in HSlots |-> HIdle]
  /\ hresp = NoHResp

\* GET /api/v1/notifications with any cursor and any limit
NextList ==
  (\E after \in AfterInputs, limit \in LimitInputs, dbOk \in BOOLEAN :
      ListNotifications(after, limit, dbOk))
    /\ UNCHANGED <<now, ticks, authVars, pushVars, cleanupVars, clientVars, restVars>>

SpecList == InitList /\ [][NextList]_vars

\* the hook client's send command, run again and again, whatever it meets
NextHook ==
  \/ HookStart /\ UNCHANGED <<now, ticks, authVars, ingestVars, pushVars, cleanupVars, restVars>>
  \/ (\E ok \in BOOLEAN : HookConfig(ok))
        /\ UNCHANGED <<now, ticks, authVars, ingestVars, pushVars, cleanupVars, restVars>>
  \/ (\E ok \in BOOLEAN : HookEvent(ok))
        /\ UNCHANGED <<now, ticks, authVars, ingestVars, pushVars, cleanupVars, restVars>>
  \/ (\E outcome \in SendOutcomes : HookSend(outcome))
        /\ UNCHANGED <<now, ticks, authVars, ingestVars, pushVars, cleanupVars, restVars>>

\* every statement of the command returns: reading the file, parsing stdin,
\* and the request, which has a timeout of 3 s
SpecHook == Init /\ [][NextHook]_vars /\ WF_vars(NextHook)

\* the sessions and the notification types of SpecDedup
DedupSessions == {"S1", "S2"}
DedupTypes == {"stop", "idle_prompt", "permission_prompt"}

\* calls of should_send_notification for any session and type while time passes
NextDedup ==
  \/ (\E sid \in DedupSessions, ty \in DedupTypes : DedupCall(sid, ty))
        /\ UNCHANGED <<now, ticks, authVars, ingestVars, pushVars, cleanupVars, clientVars,
                     lockVars, poolVars, pollVars>>
  \/ Tick(CooldownPattern)
        /\ UNCHANGED <<authVars, ingestVars, pushVars, cleanupVars, clientVars, restVars>>

SpecDedup == Init /\ [][NextDedup]_vars

\* the limits of the polling client
PollLimits == {1, 2}

\* the steps of the runs of events_handler under SpecPoll, every statement
\* succeeding
IngestSteps ==
  \/ (\E h \in HSlots, p \in RaceInputs :
         FreeHandler(h) /\ EventsTaken < MaxEvents /\ BeginEvent(h, p, TRUE))
       /\ UNCHANGED <<now, ticks, authVars, pushVars, cleanupVars, clientVars, restVars>>
  \/ (\E h \in HSlots : Txn(h, "ok"))
       /\ UNCHANGED <<now, ticks, authVars, pushVars, cleanupVars, clientVars, restVars>>
  \/ (\E h \in HSlots : ReadTitle(h, TRUE))
       /\ UNCHANGED <<now, ticks, authVars, pushVars, cleanupVars, clientVars, restVars>>
  \/ (\E h \in HSlots : InsertNotification(h, TRUE))
       /\ UNCHANGED <<now, ticks, authVars, pushVars, cleanupVars, clientVars, restVars>>
  \/ (\E h \in HSlots : BumpNotificationVersion(h))
       /\ UNCHANGED <<now, ticks, authVars, pushVars, cleanupVars, clientVars, restVars>>
  \/ (\E h \in HSlots : PersistNotificationVersion(h, TRUE))
       /\ UNCHANGED <<now, ticks, authVars, pushVars, cleanupVars, clientVars, restVars>>
  \/ (\E h \in HSlots : GateLoad(h))
       /\ UNCHANGED <<now, ticks, authVars, pushVars, cleanupVars, clientVars, restVars>>
  \/ (\E h \in HSlots : GateStore(h))
       /\ UNCHANGED <<now, ticks, authVars, pushVars, cleanupVars, clientVars, restVars>>
  \/ CleanupTask(TRUE)
       /\ UNCHANGED <<now, ticks, authVars, pushVars, cleanupVars, clientVars, restVars>>

\* the requests of the polling client
PollSteps ==
  (\E limit \in PollLimits : Poll(limit))
    /\ UNCHANGED <<now, ticks, authVars, pushVars, cleanupVars, clientVars, dedupVars, lockVars,
                   poolVars>>

\* two runs of events_handler side by side and a client that polls with its
\* cursor, while time passes
NextPoll ==
  \/ IngestSteps
  \/ PollSteps
  \/ Tick(CooldownPattern)
       /\ UNCHANGED <<authVars, ingestVars, pushVars, cleanupVars, clientVars, restVars>>

\* the handlers run to their end and the client goes on polling
SpecPoll == Init /\ [][NextPoll]_vars /\ WF_vars(IngestSteps) /\ WF_vars(PollSteps)

\* the outcomes of the transaction under SpecPool
TxnOutcomes == {"ok", "begin", "device", "session", "event", "late"}

\* the payloads of SpecPool: an event that notifies and one that does not
PoolInputs == {Payload("S1", "Stop", <<>>, <<>>), Payload("S1", "PreToolUse", <<>>, <<>>)}

\* ingestions on the connections of the pool, every statement of the
\* transaction failing or not
NextPool ==
  \/ (\E h \in HSlots, p \in PoolInputs, c \in PoolConns :
         FreeHandler(h) /\ EventsTaken < MaxEvents /\ PooledBegin(h, p, c))
       /\ UNCHANGED <<now, ticks, authVars, pushVars, cleanupVars, clientVars, dedupVars, lockVars,
                    pollVars>>
  \/ (\E h \in HSlots, out \in TxnOutcomes, rolled \in BOOLEAN : PooledTxn(h, out, rolled))
       /\ UNCHANGED <<now, ticks, authVars, pushVars, cleanupVars, clientVars, dedupVars, lockVars,
                    pollVars>>
  \/ (\E h \in HSlots : PooledRest(h))
       /\ UNCHANGED <<now, ticks, authVars, pushVars, cleanupVars, clientVars, dedupVars, lockVars,
                    pollVars>>
  \/ CleanupTask(TRUE)
       /\ UNCHANGED <<now, ticks, authVars, pushVars, cleanupVars, clientVars, restVars>>

SpecPool == Init /\ [][NextPool]_vars

\* the credentials of the requests of SpecFlood, all from one origin: none, a
\* token that is no key, the master key
HeadersFlood ==
  [xff : {<<>>}, xri : {<<>>}, auth : {<<>>, <<"Bearer", "bogus">>, <<"Bearer", master_key>>}]

\* concurrent requests from one origin, on the scoped routes and on the admin
\* routes
NextFlood ==
  \/ (\E s \in Slots, h \in HeadersFlood, cap \in Scopes : FreeSlot(s) /\ BeginAuth(s, h, cap))
       /\ UNCHANGED <<now, ticks, ingestVars, pushVars, cleanupVars, clientVars, restVars>>
  \/ (\E s \in Slots, h \in HeadersFlood : FreeSlot(s) /\ BeginAdmin(s, h, "loopback"))
       /\ UNCHANGED <<now, ticks, ingestVars, pushVars, cleanupVars, clientVars, restVars>>
  \/ (\E s \in Slots : Lookup(s, TRUE))
       /\ UNCHANGED <<now, ticks, ingestVars, pushVars, cleanupVars, clientVars, restVars>>
  \/ (\E s \in Slots : RecordFailure(s))
       /\ UNCHANGED <<now, ticks, ingestVars, pushVars, cleanupVars, clientVars, restVars>>

SpecFlood == Init /\ [][NextFlood]_vars

\* the credentials of the requests of SpecLocks: none, the master key, a key
\* with a quota of 1
HeadersLocks ==
  [xff : {<<>>}, xri : {<<>>}, auth : {<<>>, <<"Bearer", master_key>>, <<"Bearer", "tok_rw">>}]

\* the steps of request s under the guards
StepsOfRequest(s) ==
  \/ /\ AcquireGuard(s)
     /\ (req[s].pc = "idle" =>
           FreeSlot(s) /\ \E h \in HeadersLocks : FewFailures(h, MaxFailuresAuth))
       /\ UNCHANGED <<now, ticks, ingestVars, pushVars, cleanupVars, clientVars, dedupVars,
                    poolVars, pollVars>>
  \/ (\E h \in HeadersLocks :
         /\ WithinBudget(h, MaxKeyCountKeys) /\ FewFailures(h, MaxFailuresAuth)
         /\ GuardedBegin(s, h, "Write"))
       /\ UNCHANGED <<now, ticks, ingestVars, pushVars, cleanupVars, clientVars, dedupVars,
                    poolVars, pollVars>>
  \/ (\E dbOk \in BOOLEAN : GuardedLookup(s, dbOk))
       /\ UNCHANGED <<now, ticks, ingestVars, pushVars, cleanupVars, clientVars, dedupVars,
                    poolVars, pollVars>>
  \/ GuardedRecordFailure(s)
       /\ UNCHANGED <<now, ticks, ingestVars, pushVars, cleanupVars, clientVars, dedupVars,
                    poolVars, pollVars>>
  \/ GuardedQuota(s)
       /\ UNCHANGED <<now, ticks, ingestVars, pushVars, cleanupVars, clientVars, dedupVars,
                    poolVars, pollVars>>
  \/ GuardedTouch(s, TRUE)
       /\ UNCHANGED <<now, ticks, ingestVars, pushVars, cleanupVars, clientVars, dedupVars,
                    poolVars, pollVars>>

\* the steps of the calls of should_send_notification
StepsOfDedup ==
  \/ AcquireDedupGuard
       /\ UNCHANGED <<now, ticks, authVars, ingestVars, pushVars, cleanupVars, clientVars,
                    poolVars, pollVars>>
  \/ (\E ty \in DedupTypes : GuardedDedupCall("S1", ty))
       /\ UNCHANGED <<now, ticks, authVars, ingestVars, pushVars, cleanupVars, clientVars,
                    poolVars, pollVars>>

\* concurrent requests through resolve_auth and calls of
\* should_send_notification, a step at a time
NextLocks ==
  \/ \E s \in Slots : StepsOfRequest(s)
  \/ StepsOfDedup

\* a thread that can take a step is not held back forever
SpecLocks ==
  /\ Init /\ [][NextLocks]_vars
  /\ \A s \in Slots : WF_vars(StepsOfRequest(s))
  /\ WF_vars(StepsOfDedup)

\* the payloads of SpecPrivacy: a Stop of session S1 with and without a tool
\* input and with and without a key EventData does not name
PrivacyInputs ==
  { [Payload("S1", "Stop", <<>>, <<>>) EXCEPT !.tool_input = ti, !.extra = ex] :
      ti \in {<<>>, <<"command">>}, ex \in {<<>>, <<"transcript">>} }

\* ingestion of payloads that differ in the fields the server does not read
NextPrivacy ==
  \/ /\ \E p \in PrivacyInputs :
          /\ version + Cardinality({h \in HSlots : hreq[h].pc = "txn"}) < MaxEvents
          /\ BeginEvent("h1", p, TRUE)
     /\ UNCHANGED <<now, ticks, authVars, pushVars, cleanupVars, clientVars, restVars>>
  \/ Txn("h1", "ok") /\ UNCHANGED <<now, ticks, authVars, pushVars, cleanupVars, clientVars, restVars>>
  \/ ReadTitle("h1", TRUE) /\ UNCHANGED <<now, ticks, authVars, pushVars, cleanupVars, clientVars, restVars>>
  \/ InsertNotification("h1", TRUE) /\ UNCHANGED <<now, ticks, authVars, pushVars, cleanupVars, clientVars, restVars>>
  \/ BumpNotificationVersion("h1") /\ UNCHANGED <<now, ticks, authVars, pushVars, cleanupVars, clientVars, restVars>>
  \/ PersistNotificationVersion("h1", TRUE)
        /\ UNCHANGED <<now, ticks, authVars, pushVars, cleanupVars, clientVars, restVars>>
  \/ GateLoad("h1") /\ UNCHANGED <<now, ticks, authVars, pushVars, cleanupVars, clientVars, restVars>>
  \/ GateStore("h1") /\ UNCHANGED <<now, ticks, authVars, pushVars, cleanupVars, clientVars, restVars>>
  \/ CleanupTask(TRUE) /\ UNCHANGED <<now, ticks, authVars, pushVars, cleanupVars, clientVars, restVars>>

SpecPrivacy == Init /\ [][NextPrivacy]_vars

\* ------------------------------------------------------------------ claims

\* the rows of the notifications table in the cooldown bucket (session, category)
Bucket(sid, type) ==
  {n \in notifications : n.session_id = sid /\ n.notification_type = type}

\* C1: for any session and any category other than permission_prompt, of two
\* eligible events that arrive within 30 seconds of each other exactly one gets
\* a notification row: no two rows of one bucket are made within 30 seconds.
C1_CooldownInvariant ==
  \A n1 \in notifications : \A n2 \in Bucket(n1.session_id, n1.notification_type) :
     (n1.notification_type # "permission_prompt" /\ n1.id # n2.id /\ n1.created_at <= n2.created_at)
        => n2.created_at - n1.created_at >= 30

\* an event of category permission_prompt
IsPermissionEvent(e) ==
  \/ e.hook_event_name = "PermissionRequest"
  \/ e.hook_event_name = "Notification" /\ e.notification_type = <<"permission_prompt">>

\* C2: every committed event of category permission_prompt (a
\* PermissionRequest, or a Notification of sub-type permission_prompt) gets its
\* notification row, however many there are in the session, however close in
\* time, and whatever rows of other categories exist: once its handler is past
\* the insert the row is there, unless the insert statement itself failed.
C2_PermissionNeverSuppressed ==
  \A i \in DOMAIN events :
     (events[i] # <<>> /\ IsPermissionEvent(events[i][1])) =>
        \/ \E n \in notifications :
              /\ n.event_id = i /\ n.notification_type = "permission_prompt"
              /\ n.session_id = events[i][1].session_id
        \/ \E h \in HSlots : hreq[h].event_id = i /\ hreq[h].pc \in {"title", "insert"}
        \/ i \in insert_failed

C2_Witness ==
  /\ Len(events) = 2
  /\ events[1][1].hook_event_name = "PermissionRequest"
  /\ events[2][1].hook_event_name = "Notification"
  /\ events[1][1].received_at = events[2][1].received_at
  /\ Cardinality(Bucket("S1", "permission_prompt")) = 2
  /\ hreq["h1"].pc = "idle"

\* C3: acknowledging a notification does not reopen its cooldown bucket: no row
\* of a category other than permission_prompt is added to a bucket that holds
\* an acknowledged row made less than 30 seconds earlier.
C3_AckKeepsCooldown ==
  [][\A n2 \in notifications' \ notifications :
        n2.notification_type # "permission_prompt" =>
           ~\E n1 \in Bucket(n2.session_id, n2.notification_type) :
               /\ n1.acknowledged
               /\ n1.created_at <= n2.created_at
               /\ n2.created_at - n1.created_at < 30]_vars

\* the scopes a row of api_keys grants, read off its scopes column
GrantedBy(row) ==
  {sc \in Scopes : \E i \in DOMAIN row.scopes :
      \/ sc = "Read" /\ row.scopes[i] \in {"read", " read", "read "}
      \/ sc = "Write" /\ row.scopes[i] \in {"write", " write", "write "}}

\* the rows of api_keys that bear the token of a response
RowsOf(r) == IF r.tok = <<>> THEN {} ELSE {k \in api_keys : k.key = r.tok[1]}

\* an origin is locked out: 10 or more failures recorded in a window of 5
\* minutes that is still open
LockedOut(m, ip, t) == ip \in DOMAIN m /\ m[ip].count >= 10 /\ t - m[ip].start < 300

\* the failures recorded for an origin in its open window: <<count, start>>
Live(m, ip, t) ==
  IF ip \in DOMAIN m /\ t - m[ip].start < 300 THEN <<m[ip].count, m[ip].start>> ELSE <<0, 0>>

\* C4: on a read- or write-scoped route a request bearing a stored key is
\* authorized only if the key's scope set contains the capability of the route;
\* a key that lacks it is never authorized, and the scope check answers
\* Forbidden (the earlier exits are the IP lockout and a failing key lookup).
C4_ScopeEnforcement ==
  (resp.cap \in Scopes /\ resp.tok # <<>> /\ resp.tok # <<master_key>>) =>
     /\ resp.res = "Ok" => \E k \in RowsOf(resp) : resp.cap \in GrantedBy(k)
     /\ (RowsOf(resp) # {} /\ \A k \in RowsOf(resp) : resp.cap \notin GrantedBy(k)) =>
           /\ resp.res # "Ok"
           /\ resp.stage \notin {"ip", "lookup"} => resp.res = "Forbidden"

C4_Witness ==
  /\ resp.cap = "Write" /\ resp.kid = "kr" /\ resp.res = "Forbidden"
  /\ GrantedBy(CHOOSE k \in api_keys : k.id = "kr") = {"Read"}

\* C5 as stated: a request bearing the master key is granted on every route in
\* every state.
C5_MasterAlwaysGranted ==
  resp.tok = <<master_key>> => resp.res = "Ok"

\* C5 amended: a request bearing the master key is granted, whatever the key
\* store holds, unless it is an admin request whose peer is not loopback
\* (Forbidden) or its origin is locked out (RateLimited).
C5_MasterGranted ==
  [][(resp' # resp /\ resp'.tok = <<master_key>>) =>
        IF resp'.cap = "Admin" /\ resp'.peer # "loopback" THEN resp'.res = "Forbidden"
        ELSE IF LockedOut(auth_failures, resp'.ip, now) THEN resp'.res = "RateLimited"
        ELSE resp'.res = "Ok" /\ resp'.kid = ""]_vars

C5_Witness ==
  /\ resp.tok = <<master_key>> /\ resp.res = "Ok" /\ resp.cap = "Write"
  /\ resp.ip \in DOMAIN auth_failures /\ auth_failures[resp.ip].count = 9

\* C6: an admin request is authorized only if the peer of the connection is
\* loopback and the token is the master key, whatever address the headers name
\* and whatever scopes a stored key holds.
C6_AdminOnlyLoopbackMaster ==
  (resp.cap = "Admin" /\ resp.res = "Ok") =>
     resp.peer = "loopback" /\ resp.tok = <<master_key>>

C6_Witness ==
  /\ resp.cap = "Admin" /\ resp.peer = "remote" /\ resp.ip = "127.0.0.1"
  /\ resp.tok = <<master_key>> /\ resp.res = "Forbidden"

\* C7: in each 60-second window of a key with limit N, counted from the first
\* request of the window, exactly the first N requests are admitted: whatever
\* the interleaving, admitted = min(requests seen, N).
C7_RateLimitBoundary ==
  \A kid \in DOMAIN admitted :
     \A k \in {r \in api_keys : r.id = kid /\ r.rate_limit # <<>>} :
        admitted[kid].ok =
           IF admitted[kid].seen <= k.rate_limit[1] THEN admitted[kid].seen ELSE k.rate_limit[1]

C7_Witness ==
  /\ "kr" \in DOMAIN admitted /\ admitted["kr"].seen = 3 /\ admitted["kr"].ok = 2
  /\ resp.res = "RateLimited" /\ resp.stage = "quota" /\ resp.kid = "kr"

\* a step that starts a request (all of BeginAuth or BeginAdmin)
Starts == req["s1"].pc = "idle" /\ (resp' # resp \/ req' # req)
\* the request that step starts
Started == IF resp' # resp THEN resp' ELSE req'["s1"]

C9_SuccessKeepsFailures ==
  [][/\ (req["s1"].pc = "fail" /\ req'["s1"].pc = "idle") =>
           Live(auth_failures', req["s1"].ip, now)[1]
              = Live(auth_failures, req["s1"].ip, now)[1] + 1
     /\ (now' = now /\ ~(req["s1"].pc = "fail" /\ req'["s1"].pc = "idle")) =>
           \A ip \in ValidIps : Live(auth_failures', ip, now) = Live(auth_failures, ip, now)
     /\ (resp' # resp /\ resp'.res = "Ok") => req["s1"].pc # "fail"]_vars

C9_Witness ==
  /\ resp.res = "Ok" /\ resp.stage = "key"
  /\ resp.ip \in DOMAIN auth_failures /\ auth_failures[resp.ip].count = 3

\* the bearer token of an Authorization header, <<>> when the header is absent
\* or not of the form "Bearer <token>"
Bearer(hdr) == IF hdr # <<>> /\ hdr[1] = "Bearer" THEN <<hdr[2]>> ELSE <<>>

Revoked(tok) == tok # <<>> /\ tok # <<master_key>> /\ ~\E k \in api_keys : k.key = tok[1]

OkByKey(s) == req[s].pc = "touch" /\ req'[s].pc = "idle" /\ resp'.res = "Ok"

WellFormed(p) ==
  p.device_id # "" /\ p.session_id # "" /\ p.hook_event_name # "" /\ p.timestamp_ok

\* C13: no payload that lacks a device id, a session id or an event-type name, or
\* whose timestamp does not parse, gets past the validation (no handler works on
\* one, no row is made of one), and the step that answers BadRequest leaves
\* devices, sessions, events, notifications, both version counters and their
\* persisted copies unchanged.
C13_ValidationNoWrite ==
  [][/\ \A h \in HSlots : hreq'[h].pc # "idle" => WellFormed(hreq'[h].p[1])
     /\ \A i \in 1..Len(events') : events'[i][1].session_id # "" /\ events'[i][1].device_id # ""
                                      /\ events'[i][1].hook_event_name # ""
     /\ \A d \in DOMAIN devices' : d # ""
     /\ \A sid \in DOMAIN sessions' : sid # ""
     /\ (hresp' # hresp /\ hresp'.res = "BadRequest") =>
           UNCHANGED <<devices, sessions, events, notifications, version,
                       notification_version, metadata, last_cleanup, hreq>>]_vars

C13_Witness ==
  /\ hresp.route = "events" /\ hresp.res = "BadRequest"
  /\ version = 1 /\ Len(events) = 1 /\ DOMAIN sessions = {"S1"}
  /\ \A h \in HSlots : hreq[h].pc = "idle"

\* the step ends the transaction of handler h
EndsTxn(h) == hreq[h].pc = "txn" /\ hreq'[h].pc # "txn"

\* all three writes of the request of handler h are in the tables after the step
AllWritten(h) ==
  LET p == hreq[h].p[1]
      t == hreq[h].received_at
  IN  /\ p.device_id \in DOMAIN devices' /\ devices'[p.device_id].last_seen = t
      /\ p.session_id \in DOMAIN sessions' /\ sessions'[p.session_id].last_event = t
      /\ Len(events') = Len(events) + 1
      /\ events'[Len(events')][1].session_id = p.session_id
      /\ events'[Len(events')][1].received_at = t

C15_DataVersion ==
  [][IF \E h \in HSlots : EndsTxn(h) /\ hreq'[h].pc = "title"
       THEN PingVersions'.data_version = PingVersions.data_version + 1
       ELSE PingVersions'.data_version = PingVersions.data_version]_vars

\* C16: for the data version and the notification version alike, the value a
\* restart would load from metadata never decreases in a step, and in every
\* state with no handler in flight it equals the in-memory counter that ping
\* reports.
C16_CountersPersisted ==
  [][/\ LoadedAtStartup'.data_version >= LoadedAtStartup.data_version
     /\ LoadedAtStartup'.notification_version >= LoadedAtStartup.notification_version
     /\ (\A h \in HSlots : hreq'[h].pc = "idle") => LoadedAtStartup' = PingVersions']_vars

\* the step takes handler h past the increment of the notification version
PastBump(h) == hreq[h].pc = "bump" /\ hreq'[h].pc # "bump"

\* C17: the notification version goes up by 1 in the step of a handler whose
\* notification row was created, and in no other step: not for an event that is
\* not eligible, and not for a handler whose insert_notification failed.
C17_NotificationVersion ==
  [][/\ notification_version' \in {notification_version, notification_version + 1}
     /\ notification_version' = notification_version + 1 =>
           \E h \in HSlots : PastBump(h) /\ hreq[h].event_id \notin insert_failed
     /\ \A h \in HSlots : (PastBump(h) /\ hreq[h].event_id \notin insert_failed) =>
           notification_version' = notification_version + 1]_vars

\* the step commits the transaction of handler h
Commits(h) == EndsTxn(h) /\ hreq'[h].pc = "title"

\* C18: the step that commits an event leaves one device row for the device id
\* of the event and one session row for its session id: a row that existed is
\* the same row afterwards (first_seen, started_at kept) with last_seen,
\* last_event advanced to the time of the event, a row that did not exist is
\* added, no other row changes; the events table grows by exactly the row of
\* the event. The tables hold as many device and session rows as the events
\* hold distinct device and session ids, and apart from commits and the cleanup
\* no step changes a table.
C18_IdempotentUpsert ==
  [][/\ \A h \in HSlots : Commits(h) =>
          LET p == hreq[h].p[1]
              t == hreq[h].received_at
          IN  /\ DOMAIN devices' = DOMAIN devices \cup {p.device_id}
              /\ DOMAIN sessions' = DOMAIN sessions \cup {p.session_id}
              /\ devices'[p.device_id].last_seen = t
              /\ devices'[p.device_id].first_seen =
                    IF p.device_id \in DOMAIN devices THEN devices[p.device_id].first_seen ELSE t
              /\ sessions'[p.session_id].last_event = t
              /\ sessions'[p.session_id].started_at =
                    IF p.session_id \in DOMAIN sessions THEN sessions[p.session_id].started_at
                    ELSE t
              /\ \A d \in DOMAIN devices \ {p.device_id} : devices'[d] = devices[d]
              /\ \A sid \in DOMAIN sessions \ {p.session_id} : sessions'[sid] = sessions[sid]
              /\ Len(events') = Len(events) + 1
              /\ SubSeq(events', 1, Len(events)) = events
              /\ events'[Len(events')][1].device_id = p.device_id
              /\ events'[Len(events')][1].session_id = p.session_id
     /\ ((\A h \in HSlots : ~Commits(h)) /\ cleanup_tasks' >= cleanup_tasks) =>
           UNCHANGED <<devices, sessions, events>>
     /\ Cardinality(DOMAIN devices') =
           Cardinality({events'[i][1].device_id : i \in 1..Len(events')})
     /\ Cardinality(DOMAIN sessions') =
           Cardinality({events'[i][1].session_id : i \in 1..Len(events')})]_vars

\* three events of one device and session, the second and third later than the first
C18_Witness ==
  /\ Len(events) = 3 /\ DOMAIN devices = {"d1"} /\ DOMAIN sessions = {"S1"}
  /\ devices["d1"].first_seen < devices["d1"].last_seen
  /\ sessions["S1"].started_at < sessions["S1"].last_event

\* the title an event brings: the prompt of a UserPromptSubmit that has one
\* (the prompts of SessionInputs are shorter than the 200 bytes a title keeps)
BroughtTitle(p) ==
  IF p.hook_event_name = "UserPromptSubmit" /\ p.prompt # <<>> THEN p.prompt ELSE <<>>

\* C19: a session row that has a title keeps it in every step, whatever the
\* event; the commit of an event for a session that has no title, or no row
\* yet, gives the session the prompt of the event when the event is a
\* UserPromptSubmit with a prompt, and no title otherwise.
C19_TitleSticky ==
  [][/\ \A sid \in DOMAIN sessions \cap DOMAIN sessions' :
          sessions[sid].title # <<>> => sessions'[sid].title = sessions[sid].title
     /\ \A h \in HSlots : Commits(h) =>
          LET p == hreq[h].p[1]
              had == IF p.session_id \in DOMAIN sessions
                       THEN sessions[p.session_id].title ELSE <<>>
          IN  had = <<>> => sessions'[p.session_id].title = BroughtTitle(p)]_vars

\* a UserPromptSubmit with another prompt has just committed for a session
\* that had a title
C19_Witness ==
  /\ hreq["h1"].pc = "title" /\ hreq["h1"].p[1].session_id = "S1"
  /\ hreq["h1"].p[1].hook_event_name = "UserPromptSubmit"
  /\ hreq["h1"].p[1].prompt = << <<2>> >>
  /\ Len(events) = 3 /\ events[1][1].hook_event_name = "Stop"
  /\ sessions["S1"].title = << <<1, 1>> >>

\* the statuses a session can have
SessionStatuses == {"active", "waiting_for_input", "waiting_for_permission", "idle", "ended"}

\* C20: the commit of an event that derives a status sets the session to that
\* status; the commit of one that derives none leaves the status of an
\* existing session as it was and starts a new session as active; no other
\* step changes the status of a session, and every session's status is one of
\* active, waiting_for_input, waiting_for_permission, idle, ended.
C20_StatusSticky ==
  [][/\ \A h \in HSlots : Commits(h) =>
          LET p == hreq[h].p[1]
              st == derive_session_status(p.hook_event_name, p.notification_type)
          IN  sessions'[p.session_id].status =
                IF st # <<>> THEN st[1]
                ELSE IF p.session_id \in DOMAIN sessions THEN sessions[p.session_id].status
                ELSE "active"
     /\ \A sid \in DOMAIN sessions \cap DOMAIN sessions' :
          (\A h \in HSlots : ~(Commits(h) /\ hreq[h].p[1].session_id = sid)) =>
             sessions'[sid].status = sessions[sid].status
     /\ \A sid \in DOMAIN sessions' : sessions'[sid].status \in SessionStatuses]_vars

\* an event that derives no status has just committed for a session that had ended
C20_Witness ==
  /\ hreq["h1"].pc = "title" /\ hreq["h1"].p[1].session_id = "S1"
  /\ hreq["h1"].p[1].hook_event_name = "Notification"
  /\ derive_session_status("Notification", hreq["h1"].p[1].notification_type) = <<>>
  /\ Len(events) = 2 /\ events[1][1].hook_event_name = "SessionEnd"
  /\ sessions["S1"].status = "ended"

\* C21: no step replaces the last_seen of a device row or the last_event of a
\* session row by an earlier time, however the ingestion requests interleave.
C21_LastSeenMonotonic ==
  [][/\ \A d \in DOMAIN devices \cap DOMAIN devices' :
          devices'[d].last_seen >= devices[d].last_seen
     /\ \A sid \in DOMAIN sessions \cap DOMAIN sessions' :
          sessions'[sid].last_event >= sessions[sid].last_event]_vars

\* handler h has committed its transaction and not yet answered
Committed(h) == hreq[h].pc \in {"title", "insert", "bump", "persist", "gate", "store"}

\* C22: a handler that has committed its transaction stays on its way to the
\* response whatever fails (the read of the session title, the insert of the
\* notification row, the set_metadata of the notification version), the
\* response it returns is Ok, and no step of a push task or of the cleanup
\* changes a response.
C22_IngestIndependent ==
  [][/\ \A h \in HSlots : Committed(h) =>
          \/ Committed(h)'
          \/ hreq'[h].pc = "idle" /\ hresp' = [route |-> "events", res |-> "Ok"]
     /\ (push_tasks' # push_tasks \/ sends' # sends \/ cleanup_tasks' < cleanup_tasks) =>
           /\ hresp' = hresp
           /\ \A h \in HSlots : hreq'[h].pc = hreq[h].pc \/ hreq[h].pc = "persist"]_vars

\* the client has its Ok although the title read or the insert failed, the
\* notification version was not persisted and the push did not get through
C22_Witness ==
  /\ hresp = [route |-> "events", res |-> "Ok"] /\ hreq["h1"].pc = "idle"
  /\ version = 1 /\ insert_failed = {1} /\ notification_version = 1
  /\ metadata.notification_version = <<>>
  /\ Len(sends) = 1 /\ sends[1].outcome = <<>>

\* the step makes a request to the provider
Sends == Len(sends') = Len(sends) + 1

\* the request the step makes
Sent == sends'[Len(sends')]

RateLimitedBy(o) == o \in {<<429>>, <<503>>}

\* C24: a batch makes no request after one of its requests was answered 429 or
\* 503, neither to a remaining token nor again to the same one; the step with
\* that answer ends the task and leaves push_tokens as it was.
C24_Backpressure ==
  [][/\ \A j \in 1..Len(sends') : \A k \in (j + 1)..Len(sends') :
          sends'[j].batch = sends'[k].batch => ~RateLimitedBy(sends'[j].outcome)
     /\ (Sends /\ RateLimitedBy(Sent.outcome)) =>
           /\ push_tokens' = push_tokens
           /\ push_tasks'[Sent.batch].pc = "done"]_vars

\* batch 1 listed two tokens, its first request was answered 503, it has ended
\* and a later batch has sent to both tokens
C24_Witness ==
  /\ Len(sends) = 3
  /\ sends[1] = [batch |-> 1, token |-> "tok-1", outcome |-> <<503>>]
  /\ sends[2].batch = 2 /\ sends[3].batch = 2
  /\ push_tasks[1].pc = "done" /\ push_tasks[1].tokens = <<"tok-1", "tok-2">>
  /\ push_tasks[2].pc = "done"
  /\ push_tokens = <<"tok-1", "tok-2">>

\* the places in sends' of the requests of batch b, in order
RequestsOf(b) == SelectSeq([k \in 1..Len(sends') |-> k], LAMBDA k : sends'[k].batch = b)

\* C25: the requests a batch has made go to the tokens it listed, in their
\* order, one request per token and none twice; a task still in its loop has
\* had no rate-limit answer, and a task that has ended has sent to every token
\* it listed unless its last request was answered 429 or 503: after 200, 410,
\* 403, any other status and a failed request the batch goes on.
C25_OneAttemptPerToken ==
  [][\A b \in DOMAIN push_tasks' :
        LET t == push_tasks'[b]
            rs == RequestsOf(b)
        IN  /\ Len(rs) <= Len(t.tokens)
            /\ \A n \in 1..Len(rs) : sends'[rs[n]].token = t.tokens[n]
            /\ \A n \in 1..Len(rs), m \in 1..Len(rs) :
                  n # m => sends'[rs[n]].token # sends'[rs[m]].token
            /\ \A n \in 1..(Len(rs) - 1) : ~RateLimitedBy(sends'[rs[n]].outcome)
            /\ t.pc = "send" => Len(rs) = t.i - 1 /\ \A n \in 1..Len(rs) :
                                                       ~RateLimitedBy(sends'[rs[n]].outcome)
            /\ t.pc = "done" =>
                  \/ Len(rs) = Len(t.tokens)
                  \/ Len(rs) > 0 /\ RateLimitedBy(sends'[rs[Len(rs)]].outcome)]_vars

\* batch 1 went on after Gone and after an auth error, batch 2 after a failed
\* request
C25_Witness ==
  /\ Len(sends) = 4
  /\ sends[1] = [batch |-> 1, token |-> "tok-1", outcome |-> <<410>>]
  /\ sends[2] = [batch |-> 1, token |-> "tok-2", outcome |-> <<403>>]
  /\ sends[3] = [batch |-> 2, token |-> "tok-2", outcome |-> <<>>]
  /\ sends[4] = [batch |-> 2, token |-> "tok-1", outcome |-> <<200>>]
  /\ push_tasks[1].pc = "done" /\ push_tasks[2].pc = "done"

\* the token the last finished call of slot c returned
Returned(c) == tcall[c].pc = "idle" /\ tcall[c].ret # <<>>

\* no finished call holds a token that was 3000 s old or older when the call
\* read the clock
FreshReturns ==
  \A c \in TSlots : Returned(c) =>
     /\ tcall[c].ret[1].issued_at <= tcall[c].now
     /\ tcall[c].now - tcall[c].ret[1].issued_at < TOKEN_TTL

\* C26: a call made less than 3000 s after a token was issued returns that
\* same token, and no call returns a token that is 3000 s old or older.
C26_TokenCache ==
  /\ FreshReturns
  /\ \A c \in TSlots, d \in TSlots :
        (/\ Returned(c) /\ Returned(d)
         /\ tcall[c].ret[1].issued_at <= tcall[d].now
         /\ tcall[d].now - tcall[c].ret[1].issued_at < TOKEN_TTL)
        => tcall[d].ret = tcall[c].ret

\* a step that starts a cleanup run
StartsCleanup == cleanup_tasks' = cleanup_tasks + 1

\* C27: a cleanup run is started only when 300 s or more have passed since the
\* start of the run before it (last_cleanup holds the time of that start).
C27_CleanupGate ==
  [][StartsCleanup => UtcNow - last_cleanup >= 5 * 60]_vars

\* the rows of events that remain after the step
EventsLeft == {events'[i][1] : i \in {j \in DOMAIN events' : events'[j] # <<>>}}

\* C28: no step deletes a session that an event or a notification left after
\* the step refers to, nor a device that a session, an event or a notification
\* left after the step refers to.
C28_RetentionOrdering ==
  [][/\ \A s \in DOMAIN sessions \ DOMAIN sessions' :
          /\ \A e \in EventsLeft : e.session_id # s
          /\ \A n \in notifications' : n.session_id # s
     /\ \A d \in DOMAIN devices \ DOMAIN devices' :
          /\ \A s \in DOMAIN sessions' : sessions'[s].device_id # d
          /\ \A e \in EventsLeft : e.device_id # d
          /\ \A n \in notifications' : n.device_id # d]_vars

\* the order the claim gives to the statements of a cleanup run
ClaimedOrder == <<"events", "notifications", "sessions", "devices">>

\* a step of the running cleanup task
CleanupActs == Len(cleanup_run'.log) = Len(cleanup_run.log) + 1

\* C29: the statements a cleanup run has attempted are the first ones of
\* events, notifications, sessions, devices, in this order; a run that has
\* stopped has attempted none (no connection) or all four, whichever of them
\* failed; a failed statement changes no table and no statement of the run
\* touches the request in flight or the response, which is Ok for the request
\* that started the run.
C29_CleanupSteps ==
  [][/\ Len(cleanup_run'.log) <= 4
     /\ \A k \in 1..Len(cleanup_run'.log) : cleanup_run'.log[k].step = ClaimedOrder[k]
     /\ cleanup_run'.pc = "idle" => Len(cleanup_run'.log) \in {0, 4}
     /\ cleanup_run'.pc # "idle" => cleanup_run'.pc = ClaimedOrder[Len(cleanup_run'.log) + 1]
     /\ CleanupActs =>
          /\ hreq' = hreq /\ hresp' = hresp
          /\ ~cleanup_run'.log[Len(cleanup_run'.log)].ok =>
                UNCHANGED <<devices, sessions, events, notifications>>
     /\ StartsCleanup => hresp'.res = "Ok"]_vars

\* a run whose first statement failed has deleted the expired notifications
\* and left the old events
C29_Witness ==
  /\ cleanup_run.pc = "idle"
  /\ Len(cleanup_run.log) = 4
  /\ ~cleanup_run.log[1].ok /\ cleanup_run.log[2].ok
  /\ ~cleanup_run.log[3].ok /\ cleanup_run.log[4].ok
  /\ notification_version > 1 /\ \A n \in notifications : n.created_at # BootTime
  /\ \E i \in DOMAIN events : events[i] # <<>> /\ events[i][1].received_at = BootTime
  /\ hresp = [route |-> "events", res |-> "Ok"]

\* C30: a listing holds at most 200 notifications whatever the limit
\* parameter was.
C30_ListingCap ==
  hresp.route = "notifications" => Len(hresp.ids) <= MAX_LIST_LIMIT

\* C31: the stored row of an event is the row of the same payload without the
\* fields the server does not read (tool input, keys it does not name), so
\* payloads that differ only there leave the same row.
C31_PrivacyBoundary ==
  \A i \in DOMAIN events : events[i] # <<>> =>
     events[i][1].event_json = EventJsonTrimmed(events[i][1].event_json)

\* C32: a send command that has ended has ended with status 0, whatever it
\* met, and a send command that has started ends.
C32_HookExitsCleanly ==
  /\ [](hook.pc = "exited" => hook.status = 0)
  /\ (hook.pc # "exited") ~> (hook.pc = "exited")

\* three runs: no configuration, an event that does not parse, a server error
C32_Witness ==
  /\ hook = [pc |-> "exited", status |-> 0, runs |-> 3]
  /\ hook_log = << <<"Config error">>, <<"Event parse error">>,
                   <<"Send error", "ServerError">> >>


\* a step that is a call of should_send_notification
IsDedupCall == dedup_last' # dedup_last \/ notif_cooldown' # notif_cooldown

\* C33: the cooldown of a (session, type) bucket is measured from the last
\* notification that was sent: a suppressed call leaves the bucket's timestamp
\* as it was, a call is suppressed exactly when the bucket was stamped less than
\* NOTIF_COOLDOWN_WINDOW ago, and the first call at least that long after the
\* last one sent is sent again and stamps the bucket with its own time.
C33_CooldownFromLastSent ==
  [][ (IsDedupCall /\ dedup_last'.notif_type \notin HIGH_PRIORITY_TYPES) =>
        LET key == <<dedup_last'.session_id, dedup_last'.notif_type>>
            inside == key \in DOMAIN notif_cooldown
                        /\ now - notif_cooldown[key] < NOTIF_COOLDOWN_WINDOW
        IN  /\ dedup_last'.ret = ~inside
            /\ key \in DOMAIN notif_cooldown'
            /\ notif_cooldown'[key] = IF inside THEN notif_cooldown[key] ELSE now ]_vars

\* a call 29 s after the one sent at 0 was suppressed and the bucket still
\* carries the time of the one sent
C33_Witness ==
  /\ dedup_last = [session_id |-> "S1", notif_type |-> "stop", at |-> 29, ret |-> FALSE,
                   evicted |-> {}]
  /\ <<"S1", "stop">> \in DOMAIN notif_cooldown
  /\ notif_cooldown[<<"S1", "stop">>] = 0


\* what a call that evicts leaves: no entry as old as the window, and every
\* other bucket that is inside its window as it was
EvictedBy(key) ==
  /\ \A k \in DOMAIN notif_cooldown' : now - notif_cooldown'[k] < NOTIF_COOLDOWN_WINDOW
  /\ \A k \in DOMAIN notif_cooldown \ {key} :
       now - notif_cooldown[k] < NOTIF_COOLDOWN_WINDOW =>
         k \in DOMAIN notif_cooldown' /\ notif_cooldown'[k] = notif_cooldown[k]

\* a call of should_send_notification, whichever the type: the call is in
\* dedup_last, also when it leaves the map and the last call as they were
AnyDedupCall ==
  /\ dedup_last' # NoCall
  /\ dedup_last'.at = now
  /\ UNCHANGED <<now, ticks>>

\* C34: after a call of should_send_notification for a type other than
\* permission_prompt returns, the map holds no entry that is
\* NOTIF_COOLDOWN_WINDOW old or older, and the buckets of the other
\* (session, type) pairs that are inside their window are as they were; a call
\* for permission_prompt leaves the whole map as it was.
C34_EvictionOnLowPriorityCalls ==
  [][ AnyDedupCall =>
        IF dedup_last'.notif_type \in HIGH_PRIORITY_TYPES
          THEN notif_cooldown' = notif_cooldown
          ELSE EvictedBy(<<dedup_last'.session_id, dedup_last'.notif_type>>) ]_vars

\* the call for S2 at 30 s evicted the bucket of S1 stamped 0 and kept the one
\* stamped 29
C34_Witness ==
  /\ dedup_last = [session_id |-> "S2", notif_type |-> "stop", at |-> 30, ret |-> TRUE,
                   evicted |-> {<<"S1", "stop">>}]
  /\ DOMAIN notif_cooldown = {<<"S2", "stop">>, <<"S1", "idle_prompt">>}
  /\ notif_cooldown[<<"S1", "idle_prompt">>] = 29

\* C34 as stated: after any call returns, for any session and any type, no
\* entry is NOTIF_COOLDOWN_WINDOW old or older and the other buckets inside
\* their window are as they were.
C34_EvictionOnEveryCall ==
  [][ AnyDedupCall =>
        EvictedBy(<<dedup_last'.session_id, dedup_last'.notif_type>>) ]_vars


\* the step of request s that is its call of check_key_rate_limit
QuotaStepOf(s) == req[s].pc = "quota" /\ req'[s].pc # "quota"

\* C35: the window of a key starts at the first request counted in it and no
\* later request, admitted or rejected, moves it: a request inside the window
\* adds one to the counter and keeps the start; the first request
\* KEY_RATE_WINDOW or more after the start is admitted and restarts the window
\* at its own time with the counter at 1; and the entries of the other keys that
\* are inside their window are as they were.
C35_KeyWindowReset ==
  [][ \A s \in Slots : QuotaStepOf(s) =>
        LET kid == req[s].kid
            open == kid \in DOMAIN key_rate_limits
                      /\ now - key_rate_limits[kid].start < KEY_RATE_WINDOW
        IN  /\ kid \in DOMAIN key_rate_limits'
            /\ IF open
                 THEN key_rate_limits'[kid] =
                        [count |-> key_rate_limits[kid].count + 1,
                         start |-> key_rate_limits[kid].start]
                 ELSE /\ key_rate_limits'[kid] = [count |-> 1, start |-> now]
                      /\ req'[s].pc = "touch"
            /\ \A k \in DOMAIN key_rate_limits \ {kid} :
                 now - key_rate_limits[k].start < KEY_RATE_WINDOW =>
                   k \in DOMAIN key_rate_limits' /\ key_rate_limits'[k] = key_rate_limits[k]
    ]_vars

\* the key with a quota of 1 was rejected inside its window, and its request at
\* 60 s has been admitted with the counter restarted at 1, while the window of
\* the other key, begun at 59 s, stands
C35_Witness ==
  /\ now = 60
  /\ resp.res = "RateLimited" /\ resp.stage = "quota" /\ resp.kid = "krw"
  /\ req["s1"].pc = "touch" /\ req["s1"].kid = "krw"
  /\ "krw" \in DOMAIN key_rate_limits
  /\ key_rate_limits["krw"] = [count |-> 1, start |-> 60]
  /\ "kr" \in DOMAIN key_rate_limits
  /\ key_rate_limits["kr"] = [count |-> 1, start |-> 59]


\* the handlers that are acquiring a pooled connection or are in a round-trip
\* to the database
InDatabaseCall(s) == req[s].pc \in {"lookup", "touch"}

\* C36: each of the three maps has its own lock; a handler holds at most one
\* of them at a time, holds none while it acquires a pooled connection or is in
\* a database round-trip, and while it holds one its next step is the body that
\* ends with the release, so that every lock that is held is released.
C36_LockDiscipline ==
  /\ [](/\ \A t \in Threads : Cardinality(HeldBy(t)) <= 1
        /\ \A s \in Slots : HeldBy(s) # {} =>
             ~InDatabaseCall(s) /\ HeldBy(s) = {NextLockOf(s)[1]}
        /\ HeldBy(DedupThread) \subseteq {"notif_cooldown"})
  /\ \A l \in LockNames : (mutex[l] # "") ~> (mutex[l] = "")

\* the three locks held at once by three handlers, one of them with a
\* connection of the pool
C36_Witness ==
  /\ mutex = [l \in LockNames |->
                CASE l = "auth_failures" -> "s2"
                  [] l = "key_rate_limits" -> "s1"
                  [] OTHER -> DedupThread]
  /\ "s1" \in pooled


\* the request that starts is answered RateLimited by the check of its origin
RejectedForLockout == resp' # resp /\ resp'.res = "RateLimited" /\ resp'.stage = "ip"

\* C37: a request rejected because its origin is locked out leaves the count
\* and the window start of the origin as they were and goes no further; the
\* window start is written only by the failure that opens a window; and a
\* request that arrives FAILURE_WINDOW or more after that start is not rejected
\* for lockout, so that one bearing the master key is granted.
C37_LockoutBounded ==
  [][ /\ (Starts /\ (Started.cap = "Admin" => Started.peer = "loopback")) =>
           LET ip == Started.ip
           IN  /\ RejectedForLockout =>
                    /\ ip \in DOMAIN auth_failures /\ ip \in DOMAIN auth_failures'
                    /\ auth_failures'[ip] = auth_failures[ip]
                    /\ req'["s1"].pc = "idle"
               /\ (ip \in DOMAIN auth_failures
                     /\ now - auth_failures[ip].start >= FAILURE_WINDOW) =>
                    /\ ~RejectedForLockout
                    /\ Started.tok = <<master_key>> => resp'.res = "Ok"
      /\ (req["s1"].pc = "fail" /\ req'["s1"].pc = "idle") =>
           LET ip == req["s1"].ip
               open == ip \in DOMAIN auth_failures
                         /\ now - auth_failures[ip].start < FAILURE_WINDOW
           IN  auth_failures'[ip].start = IF open THEN auth_failures[ip].start ELSE now
    ]_vars

\* a request bearing the master key, rejected 299 s after the first of the 10
\* failures of its origin, has left the count and the window start as they were
C37_Witness ==
  /\ now = 299
  /\ resp.res = "RateLimited" /\ resp.stage = "ip" /\ resp.tok = <<master_key>>
  /\ resp.ip = IP1
  /\ IP1 \in DOMAIN auth_failures
  /\ auth_failures[IP1] = [count |-> MAX_FAILURES, start |-> 0]


\* C38: whatever the interleaving of the concurrent requests of one origin,
\* the failures recorded for it in one window never exceed MAX_FAILURES.
C38_FailureCap ==
  \A ip \in DOMAIN auth_failures : auth_failures[ip].count <= MAX_FAILURES


\* C39: a connection that is in the pool is never inside a transaction: when
\* an ingestion that began its transaction returns an error, the transaction
\* was rolled back before the connection went back, so the BEGIN of the next
\* request on that connection succeeds.
C39_PoolNotPoisoned ==
  \A c \in IdleConns : ~conn_txn[c]


\* C40: a client that polls with its cursor is eventually sent every
\* notification that was created, and none of them twice.
C40_CursorLosesNothing ==
  /\ \A i \in 1..MaxEvents :
       (\E n \in notifications : n.id = i) ~> (i \in Range(poll.got))
  /\ [](\A i, j \in DOMAIN poll.got : i # j => poll.got[i] # poll.got[j])

====
